---- MODULE Spec2Model ----
(***************************************************************************)
(* Verification model of the soccer_predictor prediction engine            *)
(* (backend/prediction_service.py, backend/main.py and the command-line    *)
(* resolver of scripts/predict_and_analyze.py).                            *)
(*                                                                         *)
(* Numbers are exact rationals <<n, d>> with d > 0, kept in lowest terms;  *)
(* the float NaN is <<0, 0>>.  Text is a sequence of character codes, so   *)
(* that lower(), strip(), substring search and Python's code-point string  *)
(* order are computed, not assumed.                                        *)
(***************************************************************************)
EXTENDS Integers, Sequences, FiniteSets, TLC, Bags

VARIABLES store, call, ret

vars == <<store, call, ret>>

(***************************************************************************)
(* Bounds of the explored inputs.                                          *)
(***************************************************************************)
\* longest free-text team name a request carries
MaxNameLen == 2
\* most rows in a history given to the resolver
MaxRows == 1

(***************************************************************************)
(* Exact arithmetic standing for Python/numpy floats.                      *)
(***************************************************************************)
NaN == <<0, 0>>

IsNaN(x) == x[2] = 0

Abs(n) == IF n < 0 THEN -n ELSE n

RECURSIVE GCD(_, _)
GCD(a, b) == IF b = 0 THEN a ELSE GCD(b, a % b)

Norm(n, d) ==
    IF d = 0 THEN NaN
    ELSE LET s == IF d < 0 THEN -1 ELSE 1
             g == GCD(Abs(n), Abs(d))
         IN  <<(s * n) \div g, (s * d) \div g>>

R(n) == <<n, 1>>

Frac(n, d) == Norm(n, d)

\* sums, products and comparisons cancel common factors before multiplying
Lcm(a, b) == (a \div GCD(a, b)) * b

RAdd(x, y) == IF IsNaN(x) \/ IsNaN(y) THEN NaN
              ELSE LET m == Lcm(x[2], y[2])
                   IN  Norm(x[1] * (m \div x[2]) + y[1] * (m \div y[2]), m)

RSub(x, y) == IF IsNaN(x) \/ IsNaN(y) THEN NaN
              ELSE LET m == Lcm(x[2], y[2])
                   IN  Norm(x[1] * (m \div x[2]) - y[1] * (m \div y[2]), m)

RMul(x, y) == IF IsNaN(x) \/ IsNaN(y) THEN NaN
              ELSE LET a == Norm(x[1], y[2])
                       b == Norm(y[1], x[2])
                   IN  Norm(a[1] * b[1], a[2] * b[2])

\* numpy division: 0/0 is nan (a warning, no exception)
RDiv(x, y) == IF IsNaN(x) \/ IsNaN(y) \/ y[1] = 0 THEN NaN
              ELSE RMul(x, Norm(y[2], y[1]))

\* comparisons with nan are False
RLt(x, y) == /\ ~IsNaN(x) /\ ~IsNaN(y)
             /\ LET m == Lcm(x[2], y[2])
                IN  x[1] * (m \div x[2]) < y[1] * (m \div y[2])

RLe(x, y) == /\ ~IsNaN(x) /\ ~IsNaN(y)
             /\ LET m == Lcm(x[2], y[2])
                IN  x[1] * (m \div x[2]) <= y[1] * (m \div y[2])

RGt(x, y) == RLt(y, x)

RAbs(x) == IF IsNaN(x) THEN NaN ELSE <<Abs(x[1]), x[2]>>

\* round(x, 1): nearest tenth, exact halves to the even tenth; round(nan, 1) is nan
Round1(x) ==
    IF IsNaN(x) THEN NaN
    ELSE LET n == 10 * x[1]
             q == n \div x[2]
             r == n - q * x[2]
             k == IF 2 * r < x[2] THEN q
                  ELSE IF 2 * r > x[2] THEN q + 1
                  ELSE IF q % 2 = 0 THEN q ELSE q + 1
         IN  Norm(k, 10)

RECURSIVE SumSeq(_)
SumSeq(s) == IF s = <<>> THEN R(0) ELSE RAdd(Head(s), SumSeq(Tail(s)))

\* a mean that is 0 when no cell is defined
Mean_zero_when_undefined(s) ==
    LET vals == SelectSeq(s, LAMBDA x : ~IsNaN(x))
    IN  IF vals = <<>> THEN R(0) ELSE RDiv(SumSeq(vals), R(Len(vals)))

\* pandas Series.mean(): skips NaN cells; nan when no cell is left
Mean(s) ==
    LET vals == SelectSeq(s, LAMBDA x : ~IsNaN(x))
    IN  IF vals = <<>> THEN NaN ELSE RDiv(SumSeq(vals), R(Len(vals)))

(***************************************************************************)
(* Text: str.lower, str.strip, the `in` substring test, sorted().          *)
(***************************************************************************)
Space == 32

lower_char(c) == IF c >= 65 /\ c <= 90 THEN c + 32 ELSE c

\* a comparison that keeps the case of the name
lower_unchanged(s) == s

\* str.lower()
lower(s) == [i \in 1..Len(s) |-> lower_char(s[i])]

RECURSIVE lstrip(_)
lstrip(s) == IF s # <<>> /\ Head(s) = Space THEN lstrip(Tail(s)) ELSE s

RECURSIVE rstrip(_)
rstrip(s) == IF s # <<>> /\ s[Len(s)] = Space
             THEN rstrip(SubSeq(s, 1, Len(s) - 1)) ELSE s

strip(s) == rstrip(lstrip(s))

\* sub in s
Contains(s, sub) ==
    \E i \in 0..(Len(s) - Len(sub)) : SubSeq(s, i + 1, i + Len(sub)) = sub

\* Python str order: code point by code point, a proper prefix first
RECURSIVE StrLess(_, _)
StrLess(s, t) ==
    IF t = <<>> THEN FALSE
    ELSE IF s = <<>> THEN TRUE
    ELSE IF Head(s) # Head(t) THEN Head(s) < Head(t)
    ELSE StrLess(Tail(s), Tail(t))

RECURSIVE sorted(_)
sorted(S) ==
    IF S = {} THEN <<>>
    ELSE LET m == CHOOSE x \in S : \A y \in S \ {x} : StrLess(x, y)
         IN  <<m>> \o sorted(S \ {m})

\* the first element of seq satisfying P, as a for loop with return finds it
FirstIndex(mask) ==
    LET hits == {i \in 1..Len(mask) : mask[i]}
    IN  IF hits = {} THEN 0 ELSE CHOOSE i \in hits : \A j \in hits : i <= j

Prefix(seq, n) == SubSeq(seq, 1, IF Len(seq) < n THEN Len(seq) ELSE n)

\* all sequences over S of length at most n
RECURSIVE SeqsUpTo(_, _)
SeqsUpTo(S, n) ==
    IF n = 0 THEN {<<>>}
    ELSE LET shorter == SeqsUpTo(S, n - 1)
         IN  shorter \cup {Append(s, x) : s \in shorter, x \in S}

(***************************************************************************)
(* The data store: a league match history is a sequence of rows.           *)
(***************************************************************************)
Row(home, away, hg, ag, season, status, feat) ==
    [home_team |-> home, away_team |-> away, home_goals |-> hg,
     away_goals |-> ag, season |-> season, status |-> status, feat |-> feat]

\* the columns of a processed league table
AllColumns == {"home_team", "away_team", "home_goals", "away_goals",
               "season", "status", "feat"}

\* a pandas DataFrame: the columns it has and its rows in table order
DataFrame(columns, rows) == [columns |-> columns, rows |-> rows]

Table(rows) == DataFrame(AllColumns, rows)

\* df[mask]: the rows satisfying P, in table order
Filter(df, mask) ==
    LET kept == SelectSeq([i \in 1..Len(df.rows) |-> i], LAMBDA i : mask[i])
    IN  DataFrame(df.columns, [k \in 1..Len(kept) |-> df.rows[kept[k]]])

Column(df, c) == [i \in 1..Len(df.rows) |-> df.rows[i][c]]

\* set(df["home_team"].unique()) | set(df["away_team"].unique())
AvailableTeams(df) ==
    {df.rows[i].home_team : i \in 1..Len(df.rows)}
        \cup {df.rows[i].away_team : i \in 1..Len(df.rows)}

(***************************************************************************)
(* Results of a call: a returned value or a raised exception.              *)
(***************************************************************************)
Pending == [kind |-> "pending"]

Ok(v) == [kind |-> "ok", value |-> v]

Raise(kind, what) == [kind |-> kind, what |-> what]

Raised(r) == r.kind \notin {"ok", "pending"}

\* the candidates listed in a "not found" message
HintLimit == 10

TeamNotFound(team_input, available_teams) ==
    [kind |-> "ValueError", what |-> "team not found",
     team_input |-> team_input,
     hint |-> Prefix(sorted(available_teams), HintLimit)]

(***************************************************************************)
(* Team Resolver.                                                          *)
(***************************************************************************)
\* a resolver that tries the substring loop before the exact loop
find_team_substring_first(team_input, df) ==
    LET ti == lower(strip(team_input))
        available_teams == sorted(AvailableTeams(df))
        s == FirstIndex([i \in 1..Len(available_teams) |->
                LET team == available_teams[i] IN Contains(lower(team), ti)])
    IN  IF s # 0 THEN Ok(available_teams[s])
        ELSE TeamNotFound(ti, AvailableTeams(df))

\* a resolver that answers an unknown name with the first team instead of failing
find_team_no_error(team_input, df) ==
    LET ti == lower(strip(team_input))
        available_teams == sorted(AvailableTeams(df))
        e == FirstIndex([i \in 1..Len(available_teams) |->
                LET team == available_teams[i] IN lower(team) = ti])
        s == FirstIndex([i \in 1..Len(available_teams) |->
                LET team == available_teams[i] IN Contains(lower(team), ti)])
    IN  IF e # 0 THEN Ok(available_teams[e])
        ELSE IF s # 0 THEN Ok(available_teams[s])
        ELSE IF available_teams # <<>> THEN Ok(available_teams[1])
        ELSE TeamNotFound(ti, AvailableTeams(df))

\* a resolver whose substring loop runs over the teams in descending order
find_team_descending(team_input, df) ==
    LET ti == lower(strip(team_input))
        available_teams == sorted(AvailableTeams(df))
        e == FirstIndex([i \in 1..Len(available_teams) |->
                LET team == available_teams[i] IN lower(team) = ti])
        hits == {i \in 1..Len(available_teams) :
                    Contains(lower(available_teams[i]), ti)}
    IN  IF e # 0 THEN Ok(available_teams[e])
        ELSE IF hits # {}
        THEN Ok(available_teams[CHOOSE i \in hits : \A j \in hits : j <= i])
        ELSE TeamNotFound(ti, AvailableTeams(df))

\* a resolver that rejects an input that is empty once stripped
find_team_rejecting_empty(team_input, df) ==
    LET ti == lower(strip(team_input))
        available_teams == sorted(AvailableTeams(df))
        e == FirstIndex([i \in 1..Len(available_teams) |->
                LET team == available_teams[i] IN lower(team) = ti])
        s == FirstIndex([i \in 1..Len(available_teams) |->
                LET team == available_teams[i] IN Contains(lower(team), ti)])
    IN  IF ti = <<>> THEN TeamNotFound(ti, AvailableTeams(df))
        ELSE IF e # 0 THEN Ok(available_teams[e])
        ELSE IF s # 0 THEN Ok(available_teams[s])
        ELSE TeamNotFound(ti, AvailableTeams(df))

\* backend/prediction_service.py find_team
find_team(team_input, df) ==
    LET ti == lower(strip(team_input))
        available_teams == sorted(AvailableTeams(df))
        e == FirstIndex([i \in 1..Len(available_teams) |->
                LET team == available_teams[i] IN lower(team) = ti])
        s == FirstIndex([i \in 1..Len(available_teams) |->
                LET team == available_teams[i] IN Contains(lower(team), ti)])
    IN  IF e # 0 THEN Ok(available_teams[e])
        ELSE IF s # 0 THEN Ok(available_teams[s])
        ELSE TeamNotFound(ti, AvailableTeams(df))

\* scripts/predict_and_analyze.py find_team, given the caller's team list
script_find_team(team_input, available_teams) ==
    LET ti == strip(team_input)
        e == FirstIndex([i \in 1..Len(available_teams) |->
                LET team == available_teams[i] IN lower(team) = lower(ti)])
        s == FirstIndex([i \in 1..Len(available_teams) |->
                LET team == available_teams[i] IN Contains(lower(team), lower(ti))])
    IN  IF e # 0 THEN Ok(available_teams[e])
        ELSE IF s # 0 THEN Ok(available_teams[s])
        ELSE TeamNotFound(ti, {available_teams[i] : i \in 1..Len(available_teams)})

(***************************************************************************)
(* Inputs explored for the resolver.                                       *)
(***************************************************************************)
\* characters a request may carry: space, "A", "a", "b"
InputChars == {Space, 65, 97, 98}

InputNames == SeqsUpTo(InputChars, MaxNameLen)

\* canonical team names: "A", "Ab", "a", "ab", "b", "ba"
TeamNames == {<<65>>, <<65, 98>>, <<97>>, <<97, 98>>, <<98>>, <<98, 97>>}

Played == "played"

Scheduled == "scheduled"

\* a row of which only the team names matter
NameRow(home, away) == Row(home, away, R(1), R(0), 2024, Played, R(1))

NameRows == {NameRow(p[1], p[2]) : p \in {q \in TeamNames \X TeamNames : q[1] # q[2]}}

\* twelve distinct teams, more than a "not found" message lists
ManyTeams == sorted(SeqsUpTo({65, 97, 98}, 2) \ {<<>>})

BigHistory == Table([i \in 1..6 |-> NameRow(ManyTeams[i], ManyTeams[i + 6])])

ResolverHistories == {Table(rows) : rows \in SeqsUpTo(NameRows, MaxRows)} \cup {BigHistory}

NoStore == <<>>

NoCall == [op |-> "none"]

NoRet == [op |-> "none", res |-> Pending]

(***************************************************************************)
(* Specification of the resolver: Init draws (team_input, df), the actions *)
(* apply the backend resolver and the command-line resolver.               *)
(***************************************************************************)
InitResolver ==
    /\ store = NoStore
    /\ call \in {[op |-> "resolve", team_input |-> t, df |-> h] :
                    t \in InputNames, h \in ResolverHistories}
    /\ ret = NoRet

FindTeam ==
    /\ call.op = "resolve"
    /\ ret.op = "none"
    /\ ret' = [op |-> "find_team", res |-> find_team(call.team_input, call.df)]
    /\ UNCHANGED <<store, call>>

ScriptFindTeam ==
    /\ call.op = "resolve"
    /\ ret.op = "none"
    /\ ret' = [op |-> "script_find_team",
               res |-> script_find_team(call.team_input,
                                        sorted(AvailableTeams(call.df)))]
    /\ UNCHANGED <<store, call>>

NextResolver == FindTeam \/ ScriptFindTeam

SpecResolver == InitResolver /\ [][NextResolver]_vars

Resolved == call.op = "resolve" /\ ret.op \in {"find_team", "script_find_team"}

\* the input as both resolvers compare it
Wanted == lower(strip(call.team_input))

ExactTeams == {t \in AvailableTeams(call.df) : lower(t) = Wanted}

SubstringTeams == {t \in AvailableTeams(call.df) : Contains(lower(t), Wanted)}

\* C5: whenever some team equals the input case-insensitively, the resolver
\* (backend and command-line) returns a team that equals the input
\* case-insensitively, also when a team that merely contains the input sorts
\* earlier.
C5_ExactMatchWins ==
    (Resolved /\ ExactTeams # {}) =>
        (ret.res.kind = "ok" /\ ret.res.value \in ExactTeams)

\* C5 witness: the backend resolver returned the exact match although a team
\* containing the input as a proper substring sorts before it.
C5_Witness ==
    /\ Resolved
    /\ ret.op = "find_team"
    /\ ret.res.kind = "ok"
    /\ ret.res.value \in ExactTeams
    /\ \E t \in SubstringTeams \ ExactTeams : StrLess(t, ret.res.value)

\* the team that Python's str order puts first in a set of names
FirstInOrder(S) == CHOOSE t \in S : \A u \in S \ {t} : StrLess(t, u)

\* C21: when no team equals the input case-insensitively and some team's
\* lower-cased name contains the lower-cased input, find_team returns, of the
\* teams containing it, the one that comes first in sorted order.
C21_FirstSubstringMatch ==
    (Resolved /\ ret.op = "find_team" /\ ExactTeams = {} /\ SubstringTeams # {}) =>
        ret.res = Ok(FirstInOrder(SubstringTeams))

\* two teams contain the input, neither equals it, and the one returned
\* sorts before the other
C21_Witness ==
    /\ Resolved
    /\ ret.op = "find_team"
    /\ ExactTeams = {}
    /\ Cardinality(SubstringTeams) >= 2
    /\ ret.res = Ok(FirstInOrder(SubstringTeams))
    /\ \E t \in SubstringTeams : StrLess(ret.res.value, t)

\* C26: for a history with at least one team, find_team does not fail on an
\* input that is empty or only spaces: it returns the first team in sorted
\* order.
C26_EmptyInputResolves ==
    (Resolved /\ ret.op = "find_team" /\ AvailableTeams(call.df) # {}
        /\ \A i \in 1..Len(call.team_input) : call.team_input[i] = Space) =>
        ret.res = Ok(FirstInOrder(AvailableTeams(call.df)))

\* an input of spaces only was resolved to a team
C26_Witness ==
    /\ Resolved
    /\ ret.op = "find_team"
    /\ call.team_input # <<>>
    /\ \A i \in 1..Len(call.team_input) : call.team_input[i] = Space
    /\ ret.res.kind = "ok"
    /\ ret.res.value = FirstInOrder(AvailableTeams(call.df))

(***************************************************************************)
(* Scoreline Estimator.                                                    *)
(***************************************************************************)
\* the fixed fallback scoreline: home 1.5, away 1.0
FallbackScoreline ==
    [predicted_home_goals |-> Frac(3, 2), predicted_away_goals |-> R(1)]

\* a season cell that holds no label (a float nan among the strings)
NoSeason == 0

\* sorted(df["season"].unique()) raises TypeError on labels mixed with nan
Unsortable(df) ==
    /\ \E i \in 1..Len(df.rows) : df.rows[i].season = NoSeason
    /\ \E i \in 1..Len(df.rows) : df.rows[i].season # NoSeason

\* unique_seasons[-2:]
LastTwo(S) == {x \in S : Cardinality({y \in S : y > x}) < 2}

\* the rows whose season is one of the last two labels
RowsOfSeasons(df, unique_seasons) ==
    IF Cardinality(unique_seasons) >= 2
    THEN Filter(df, [i \in 1..Len(df.rows) |->
                        df.rows[i].season \in LastTwo(unique_seasons)])
    ELSE df

\* an estimator that takes the team averages over every season
RecentRows_all(df) == df

\* recent_df: the rows of the two greatest season labels, all rows when
\* fewer than two labels exist
RecentRows(df) ==
    RowsOfSeasons(df, {df.rows[i].season : i \in 1..Len(df.rows)})

ClearFavorite == Frac(15, 100)

\* the row's lower-cased home team: the pre-computed column when the table has it
HomeLower(df, r) ==
    IF "home_team_lower" \in df.columns THEN r.home_team_lower
    ELSE lower(r.home_team)

AwayLower(df, r) ==
    IF "home_team_lower" \in df.columns THEN r.away_team_lower
    ELSE lower(r.away_team)

\* an estimator that never takes the early return
NoCompleted_never(completed_matches) == FALSE

\* if len(completed_matches) == 0
NoCompleted(completed_matches) == Len(completed_matches.rows) = 0

\* round(predicted_home_goals, 1), round(predicted_away_goals, 1)
RoundScoreline(predicted_home_goals, predicted_away_goals) ==
    [predicted_home_goals |-> Round1(predicted_home_goals),
     predicted_away_goals |-> Round1(predicted_away_goals)]

\* a clear favourite that is not ahead is put ahead by 0.5 + prob_diff * 2;
\* the comparison is made on the values before rounding
EnsureFavorite(predicted_home_goals, predicted_away_goals, prob_diff, home_win_prob, away_win_prob) ==
    LET clear == RGt(prob_diff, ClearFavorite)
        home_fav == RGt(home_win_prob, away_win_prob)
        gap == RAdd(Frac(1, 2), RMul(prob_diff, R(2)))
    IN  IF clear /\ home_fav /\ RLe(predicted_home_goals, predicted_away_goals)
        THEN RoundScoreline(RAdd(predicted_away_goals, gap), predicted_away_goals)
        ELSE IF clear /\ ~home_fav
                /\ RLe(predicted_away_goals, predicted_home_goals)
        THEN RoundScoreline(predicted_home_goals, RAdd(predicted_home_goals, gap))
        ELSE RoundScoreline(predicted_home_goals, predicted_away_goals)

\* the base goals scaled by the outcome probabilities
AdjustGoals(base_home_goals, base_away_goals, prob_diff, adjustment_factor, home_win_prob, draw_prob, away_win_prob) ==
    LET up(p) == RAdd(R(1), RMul(adjustment_factor, p))
        down(p) == RSub(R(1), RMul(RMul(adjustment_factor, RSub(p, draw_prob)),
                                   Frac(1, 2)))
        even == RAdd(R(1), RMul(Frac(1, 5), draw_prob))
    IN  IF RGt(home_win_prob, away_win_prob)
        THEN EnsureFavorite(RMul(base_home_goals, up(home_win_prob)),
                            RMul(base_away_goals, down(home_win_prob)),
                            prob_diff, home_win_prob, away_win_prob)
        ELSE IF RGt(away_win_prob, home_win_prob)
        THEN EnsureFavorite(RMul(base_home_goals, down(away_win_prob)),
                            RMul(base_away_goals, up(away_win_prob)),
                            prob_diff, home_win_prob, away_win_prob)
        ELSE EnsureFavorite(RMul(base_home_goals, even),
                            RMul(base_away_goals, even),
                            prob_diff, home_win_prob, away_win_prob)

\* an adjustment whose factor grows with the home probability alone
AdjustByHomeProbability(base_home_goals, base_away_goals, prob_diff, home_win_prob, draw_prob, away_win_prob) ==
    AdjustGoals(base_home_goals, base_away_goals, prob_diff,
                RAdd(Frac(1, 2), home_win_prob), home_win_prob, draw_prob,
                away_win_prob)

\* prob_diff = abs(home_win_prob - away_win_prob); the factor is 0.5 + prob_diff
AdjustByDifference(base_home_goals, base_away_goals, prob_diff, home_win_prob, draw_prob, away_win_prob) ==
    AdjustGoals(base_home_goals, base_away_goals, prob_diff,
                RAdd(Frac(1, 2), prob_diff), home_win_prob, draw_prob,
                away_win_prob)

\* the arithmetic from the team averages to the rounded scoreline
AdjustScoreline(home_scoring_avg, home_conceding_avg, away_scoring_avg, away_conceding_avg, home_win_prob, draw_prob, away_win_prob) ==
    AdjustByDifference(RDiv(RAdd(home_scoring_avg, away_conceding_avg), R(2)),
                       RDiv(RAdd(away_scoring_avg, home_conceding_avg), R(2)),
                       RAbs(RSub(home_win_prob, away_win_prob)),
                       home_win_prob, draw_prob, away_win_prob)

\* a side's average over its samples, the league baseline when it has none
SampleAverage(samples, league_avg) ==
    IF samples # <<>> THEN Mean(samples) ELSE league_avg

\* from the four sample lists to the scoreline
scoreline_from_samples(home_goals_scored, home_goals_conceded, away_goals_scored, away_goals_conceded, league_avg_home, league_avg_away, outcome_probs) ==
    IF "home_win" \notin DOMAIN outcome_probs THEN Raise("KeyError", "home_win")
    ELSE IF "draw" \notin DOMAIN outcome_probs THEN Raise("KeyError", "draw")
    ELSE IF "away_win" \notin DOMAIN outcome_probs
    THEN Raise("KeyError", "away_win")
    ELSE Ok(AdjustScoreline(SampleAverage(home_goals_scored, league_avg_home),
                            SampleAverage(home_goals_conceded, league_avg_away),
                            SampleAverage(away_goals_scored, league_avg_away),
                            SampleAverage(away_goals_conceded, league_avg_home),
                            outcome_probs["home_win"], outcome_probs["draw"],
                            outcome_probs["away_win"]))

\* the goals each side scored and conceded in its recent home and away rows
scoreline_from_matches(home_as_home, home_as_away, away_as_home, away_as_away, league_avg_home, league_avg_away, outcome_probs) ==
    scoreline_from_samples(
        Column(home_as_home, "home_goals") \o Column(home_as_away, "away_goals"),
        Column(home_as_home, "away_goals") \o Column(home_as_away, "home_goals"),
        Column(away_as_home, "home_goals") \o Column(away_as_away, "away_goals"),
        Column(away_as_home, "away_goals") \o Column(away_as_away, "home_goals"),
        league_avg_home, league_avg_away, outcome_probs)

\* the recent rows of each side, compared on lower-cased names
scoreline_from_recent(df, recent_df, home_lower, away_lower, league_avg_home, league_avg_away, outcome_probs) ==
    scoreline_from_matches(
        Filter(recent_df, [i \in 1..Len(recent_df.rows) |->
                              HomeLower(df, recent_df.rows[i]) = home_lower]),
        Filter(recent_df, [i \in 1..Len(recent_df.rows) |->
                              AwayLower(df, recent_df.rows[i]) = home_lower]),
        Filter(recent_df, [i \in 1..Len(recent_df.rows) |->
                              HomeLower(df, recent_df.rows[i]) = away_lower]),
        Filter(recent_df, [i \in 1..Len(recent_df.rows) |->
                              AwayLower(df, recent_df.rows[i]) = away_lower]),
        league_avg_home, league_avg_away, outcome_probs)

\* after the completed matches are selected: early return, league baselines,
\* recent seasons
scoreline_from_completed(df, completed_matches, home_team, away_team, outcome_probs) ==
    IF NoCompleted(completed_matches) THEN Ok(FallbackScoreline)
    ELSE IF "home_goals" \notin df.columns THEN Raise("KeyError", "home_goals")
    ELSE IF "away_goals" \notin df.columns THEN Raise("KeyError", "away_goals")
    ELSE IF "season" \notin df.columns THEN Raise("KeyError", "season")
    ELSE IF Unsortable(df) THEN Raise("TypeError", "season")
    ELSE IF "home_team" \notin df.columns THEN Raise("KeyError", "home_team")
    ELSE IF "away_team" \notin df.columns THEN Raise("KeyError", "away_team")
    ELSE scoreline_from_recent(df, RecentRows(df), lower(home_team),
                               lower(away_team),
                               Mean(Column(completed_matches, "home_goals")),
                               Mean(Column(completed_matches, "away_goals")),
                               outcome_probs)

\* the body of the try block: a scoreline, or the exception a step raises
scoreline_try(df, home_team, away_team, outcome_probs) ==
    IF "status" \notin df.columns THEN Raise("KeyError", "status")
    ELSE scoreline_from_completed(
             df, Filter(df, [i \in 1..Len(df.rows) |->
                                df.rows[i].status # "scheduled"]),
             home_team, away_team, outcome_probs)

\* except KeyError: return the fallback
except_KeyError(r) == IF r.kind = "KeyError" THEN Ok(FallbackScoreline) ELSE r

\* except Exception: return the fallback
except_Exception(r) == IF Raised(r) THEN Ok(FallbackScoreline) ELSE r

\* an estimator whose handler catches KeyError only
predict_scoreline_keyerror_only(df, home_team, away_team, outcome_probs) ==
    except_KeyError(scoreline_try(df, home_team, away_team, outcome_probs))

\* predict_scoreline: try ... except Exception: return the fallback
predict_scoreline(df, home_team, away_team, outcome_probs) ==
    except_Exception(scoreline_try(df, home_team, away_team, outcome_probs))

(***************************************************************************)
(* Inputs explored for the Scoreline Estimator.                            *)
(***************************************************************************)
\* most rows in a history given to the estimator
MaxMatches == 2

\* the two sides of the call, "A" and "b", and a third team "ba"
HomeSide == <<65>>

AwaySide == <<98>>

ThirdSide == <<98, 97>>

Sides == {HomeSide, AwaySide, ThirdSide}

\* final scores of played rows: 0-0, 1-0, 1-2, 2-1
Scores == {<<0, 0>>, <<1, 0>>, <<1, 2>>, <<2, 1>>}

PlayedRow(home, away, score, season) ==
    Row(home, away, R(score[1]), R(score[2]), season, Played, R(1))

\* a fixture not yet played: no goals recorded
ScheduledRow(home, away, season) ==
    Row(home, away, NaN, NaN, season, Scheduled, R(1))

Fixtures == {q \in Sides \X Sides : q[1] # q[2]}

ScoreRows ==
    {PlayedRow(q[1], q[2], g, 2024) : q \in Fixtures, g \in Scores}
        \cup {ScheduledRow(q[1], q[2], 2024) : q \in Fixtures}

Pct(n) == Frac(n, 100)

Probs(hw, d, aw) == [home_win |-> Pct(hw), draw |-> Pct(d), away_win |-> Pct(aw)]

\* outcome probabilities, each triple summing to 1
ScoreProbs ==
    {Probs(70, 15, 15), Probs(15, 15, 70), Probs(50, 20, 30), Probs(30, 20, 50),
     Probs(40, 20, 40), Probs(45, 20, 35), Probs(35, 20, 45), Probs(100, 0, 0)}

ScoreCall(df, probs) ==
    [op |-> "scoreline", df |-> df, home_team |-> HomeSide,
     away_team |-> AwaySide, outcome_probs |-> probs]

SampleRows ==
    <<PlayedRow(HomeSide, AwaySide, <<2, 1>>, 2024),
      PlayedRow(AwaySide, ThirdSide, <<1, 0>>, 2024)>>

\* malformed inputs: a missing column, a missing probability key, season
\* labels that do not sort
MalformedCalls ==
    {ScoreCall(DataFrame(AllColumns \ {c}, SampleRows), Probs(70, 15, 15)) :
        c \in AllColumns}
    \cup {ScoreCall(Table(SampleRows),
                    [k \in {"home_win", "draw", "away_win"} \ {m} |-> Pct(30)]) :
            m \in {"home_win", "draw", "away_win"}}
    \cup {ScoreCall(Table(Append(SampleRows, r)), Probs(15, 15, 70)) :
            r \in {PlayedRow(HomeSide, ThirdSide, <<1, 2>>, NoSeason),
                   ScheduledRow(ThirdSide, HomeSide, NoSeason)}}

WellFormedCalls ==
    {ScoreCall(Table(rows), p) :
        rows \in SeqsUpTo(ScoreRows, MaxMatches), p \in ScoreProbs}

(***************************************************************************)
(* Specification of the estimator: Init draws the call, the action applies *)
(* predict_scoreline.                                                      *)
(***************************************************************************)
InitScoreline ==
    /\ store = NoStore
    /\ call \in WellFormedCalls \cup MalformedCalls
    /\ ret = NoRet

PredictScoreline ==
    /\ call.op = "scoreline"
    /\ ret.op = "none"
    /\ ret' = [op |-> "predict_scoreline",
               res |-> predict_scoreline(call.df, call.home_team,
                                         call.away_team, call.outcome_probs)]
    /\ UNCHANGED <<store, call>>

NextScoreline == PredictScoreline

SpecScoreline == InitScoreline /\ [][NextScoreline]_vars

Estimated == call.op = "scoreline" /\ ret.op = "predict_scoreline"

HasTriple == {"home_win", "draw", "away_win"} \subseteq DOMAIN call.outcome_probs

HomeWin == call.outcome_probs["home_win"]

AwayWin == call.outcome_probs["away_win"]

HomeGoals == ret.res.value.predicted_home_goals

AwayGoals == ret.res.value.predicted_away_goals

\* C6: with |home_win - away_win| > 0.15 the returned (rounded) scoreline
\* gives the favoured side strictly more goals than the other side.
C6_FavoriteScoresMore ==
    (Estimated /\ HasTriple /\ RGt(RAbs(RSub(HomeWin, AwayWin)), ClearFavorite)) =>
        /\ ret.res.kind = "ok"
        /\ RGt(HomeWin, AwayWin) => RGt(HomeGoals, AwayGoals)
        /\ RGt(AwayWin, HomeWin) => RGt(AwayGoals, HomeGoals)

\* a history of non-negative goals whose scheduled rows carry no goals,
\* with a probability triple in [0,1] summing to 1
WellFormed ==
    /\ call.df.columns = AllColumns
    /\ ~Unsortable(call.df)
    /\ HasTriple
    /\ \A k \in DOMAIN call.outcome_probs :
          RLe(R(0), call.outcome_probs[k]) /\ RLe(call.outcome_probs[k], R(1))
    /\ RAdd(HomeWin, RAdd(call.outcome_probs["draw"], AwayWin)) = R(1)
    /\ \A i \in 1..Len(call.df.rows) :
          LET r == call.df.rows[i]
          IN  IF r.status = Scheduled
              THEN IsNaN(r.home_goals) /\ IsNaN(r.away_goals)
              ELSE RLe(R(0), r.home_goals) /\ RLe(R(0), r.away_goals)

\* C7: for such inputs both returned values are defined numbers >= 0.
C7_GoalsDefinedNonNegative ==
    (Estimated /\ WellFormed) =>
        /\ ret.res.kind = "ok"
        /\ RLe(R(0), HomeGoals)
        /\ RLe(R(0), AwayGoals)

RequiredColumns == {"status", "home_goals", "away_goals", "season",
                    "home_team", "away_team"}

\* an input on which a step of the estimator fails
Malformed ==
    \/ ~(RequiredColumns \subseteq call.df.columns)
    \/ Unsortable(call.df)
    \/ ~HasTriple

\* C8: the estimator never raises; on a malformed input it returns the
\* fallback (1.5, 1.0).
C8_NeverRaises ==
    Estimated =>
        /\ ret.res.kind = "ok"
        /\ Malformed => ret.res.value = FallbackScoreline

\* C8 witness: season labels that do not sort (a TypeError inside the try
\* block, past the early return) ended in the fallback.
C8_Witness ==
    /\ Estimated
    /\ RequiredColumns \subseteq call.df.columns
    /\ Unsortable(call.df)
    /\ \E i \in 1..Len(call.df.rows) : call.df.rows[i].status # Scheduled
    /\ ret.res.kind = "ok"
    /\ ret.res.value = FallbackScoreline

ZeroCompleted ==
    /\ "status" \in call.df.columns
    /\ \A i \in 1..Len(call.df.rows) : call.df.rows[i].status = Scheduled

\* C9: with zero completed matches the result is exactly (1.5, 1.0),
\* whatever the teams and the probabilities.
C9_ZeroCompletedFallback ==
    (Estimated /\ ZeroCompleted) =>
        (ret.res.kind = "ok" /\ ret.res.value = FallbackScoreline)

\* C9 witness: a history holding only scheduled fixtures of both sides, the
\* away side the clear favourite, answered with (1.5, 1.0).
C9_Witness ==
    /\ Estimated
    /\ ZeroCompleted
    /\ Len(call.df.rows) = MaxMatches
    /\ HasTriple
    /\ RGt(AwayWin, HomeWin)
    /\ ret.res.value = FallbackScoreline

(***************************************************************************)
(* Team Feature Aggregator.                                                *)
(***************************************************************************)
\* the away weight applied to the home partition
HomeWeightAsAway == Frac(4, 10)

HomeWeight == Frac(6, 10)

AwayWeight == Frac(4, 10)

\* the combination returned without fillna
fillna_skipped(x) == x

\* combined.fillna(0)
fillna0(x) == IF IsNaN(x) THEN R(0) ELSE x

\* get_team_stats: one value per feature column, in the model's column order
get_team_stats(df, team_name, model_data) ==
    LET team_lower == lower(team_name)
        precomputed == {"home_team_lower", "away_team_lower"} \subseteq df.columns
        home_matches ==
            Filter(df, [i \in 1..Len(df.rows) |->
                LET r == df.rows[i] IN (IF precomputed THEN r.home_team_lower ELSE lower(r.home_team)) = team_lower])
        away_matches ==
            Filter(df, [i \in 1..Len(df.rows) |->
                LET r == df.rows[i] IN (IF precomputed THEN r.away_team_lower ELSE lower(r.away_team)) = team_lower])
        feature_cols == model_data.feature_cols
        features(matches, c) ==
            IF matches.rows # <<>> THEN Mean(Column(matches, c)) ELSE R(0)
    IN  IF home_matches.rows = <<>> /\ away_matches.rows = <<>>
        THEN Raise("ValueError", "team not found in data")
        ELSE IF \E i \in 1..Len(feature_cols) : feature_cols[i] \notin df.columns
        THEN Raise("KeyError", "feature_cols")
        ELSE Ok([i \in 1..Len(feature_cols) |->
                    fillna0(RAdd(RMul(features(home_matches, feature_cols[i]),
                                      HomeWeight),
                                 RMul(features(away_matches, feature_cols[i]),
                                      AwayWeight)))])

(***************************************************************************)
(* Data/Model Access Layer: per league, a processed table and a model       *)
(* artifact on disk, either of which may be absent.                        *)
(***************************************************************************)
Labels == {"win", "draw", "loss"}

\* the orderings of the class list a model artifact may declare
ClassOrders == {c \in [1..3 -> Labels] : {c[i] : i \in 1..3} = Labels}

\* test_accuracy of an artifact: a number, None, or no such key
Num(x) == [tag |-> "num", v |-> x]

NoneValue == [tag |-> "none", v |-> NaN]

AbsentKey == [tag |-> "absent", v |-> NaN]

ModelData(classes, test_accuracy) ==
    [classes |-> classes, test_accuracy |-> test_accuracy,
     feature_cols |-> <<"feat">>]

Artifacts(has_model, model_data, has_data, df) ==
    [has_model |-> has_model, model |-> model_data,
     has_data |-> has_data, df |-> df]

\* load_league_model
load_league_model(st, league) ==
    IF ~st[league].has_model THEN Raise("FileNotFoundError", "model")
    ELSE Ok(st[league].model)

\* row after df["total_goals"] = df["home_goals"] + df["away_goals"]
with_total_goals(r) ==
    [c \in (DOMAIN r) \cup {"total_goals"} |->
        IF c = "total_goals" THEN RAdd(r.home_goals, r.away_goals) ELSE r[c]]

add_total_goals(df) ==
    DataFrame(df.columns \cup {"total_goals"},
              [i \in 1..Len(df.rows) |-> with_total_goals(df.rows[i])])

\* load_league_data: read the table and add total_goals
load_league_data(st, league) ==
    IF ~st[league].has_data THEN Raise("FileNotFoundError", "data")
    ELSE IF ~({"home_goals", "away_goals"} \subseteq st[league].df.columns)
    THEN Raise("KeyError", "home_goals")
    ELSE Ok(add_total_goals(st[league].df))

(***************************************************************************)
(* Outcome Predictor.                                                      *)
(***************************************************************************)
\* a mapping that takes the positions of scikit-learn's sorted class list
\* (draw, loss, win) whatever the artifact declares
LabelIndex_positional(classes, label) ==
    CASE label = "draw" -> 1 [] label = "loss" -> 2 [] label = "win" -> 3

\* classes.index(label): the first position holding the label, 0 for ValueError
LabelIndex(classes, label) ==
    FirstIndex([i \in 1..Len(classes) |->
                LET c == classes[i] IN c = label])

VecSub(x, y) == [i \in 1..Len(x) |-> RSub(x[i], y[i])]

\* a scaler that centres the two values and leaves their scale
Standardize_centered(a, b) ==
    LET mean == RDiv(RAdd(a, b), R(2))
    IN  <<RSub(a, mean), RSub(b, mean)>>

\* StandardScaler().fit_transform on the two vectors, column by column:
\* population mean and deviation of two points, a zero deviation taken as 1
Standardize(a, b) ==
    LET mean == RDiv(RAdd(a, b), R(2))
        dev == RDiv(RAbs(RSub(a, b)), R(2))
        scale == IF dev = R(0) THEN R(1) ELSE dev
    IN  <<RDiv(RSub(a, mean), scale), RDiv(RSub(b, mean), scale)>>

\* an average that halves the weighted sum instead of dividing by the weights
Ensemble_halved(proba_a, proba_b, weight_a, weight_b) ==
    [i \in 1..Len(proba_a) |->
        RDiv(RAdd(RMul(proba_a[i], weight_a), RMul(proba_b[i], weight_b)), R(2))]

\* (proba_a * weight_a + proba_b * weight_b) / (weight_a + weight_b), elementwise
Ensemble(proba_a, proba_b, weight_a, weight_b) ==
    [i \in 1..Len(proba_a) |->
        RDiv(RAdd(RMul(proba_a[i], weight_a), RMul(proba_b[i], weight_b)),
             RAdd(weight_a, weight_b))]

\* the result dictionary of predict_head_to_head
head_to_head_result(outcome_probs, scoreline, home_team, away_team) ==
    Ok([home_win |-> outcome_probs.home_win,
        draw |-> outcome_probs.draw,
        away_win |-> outcome_probs.away_win,
        predicted_home_goals |-> scoreline.value.predicted_home_goals,
        predicted_away_goals |-> scoreline.value.predicted_away_goals,
        home_team |-> home_team,
        away_team |-> away_team])

\* the probabilities read by label, then the scoreline
head_to_head_by_label(df, home_team, away_team, proba, win, draw, loss) ==
    IF win = 0 \/ draw = 0 \/ loss = 0
    THEN Raise("ValueError", "label not in classes")
    ELSE head_to_head_result(
             [home_win |-> proba[win], draw |-> proba[draw],
              away_win |-> proba[loss]],
             predict_scoreline(df, home_team, away_team,
                               [home_win |-> proba[win], draw |-> proba[draw],
                                away_win |-> proba[loss]]),
             home_team, away_team)

\* after both sides' features are aggregated: the difference vector goes to
\* the classifier, whose answer is proba
head_to_head_from_stats(model_data, df, home_team, away_team, home_stats, away_stats, proba) ==
    IF Raised(home_stats) THEN home_stats
    ELSE IF Raised(away_stats) THEN away_stats
    ELSE head_to_head_by_label(df, home_team, away_team, proba,
                               LabelIndex(model_data.classes, "win"),
                               LabelIndex(model_data.classes, "draw"),
                               LabelIndex(model_data.classes, "loss"))

\* after both names are resolved
head_to_head_from_teams(model_data, df, home_team_found, away_team_found, proba) ==
    IF Raised(home_team_found) THEN home_team_found
    ELSE IF Raised(away_team_found) THEN away_team_found
    ELSE head_to_head_from_stats(
             model_data, df, home_team_found.value, away_team_found.value,
             get_team_stats(df, home_team_found.value, model_data),
             get_team_stats(df, away_team_found.value, model_data), proba)

\* after the model and the table are loaded
head_to_head_loaded(model_data, data, home_team, away_team, proba) ==
    IF Raised(model_data) THEN model_data
    ELSE IF Raised(data) THEN data
    ELSE head_to_head_from_teams(model_data.value, data.value,
                                 find_team(home_team, data.value),
                                 find_team(away_team, data.value), proba)

\* predict_head_to_head; proba is what model.predict_proba answers for the
\* difference vector, in the model's own class order
predict_head_to_head(st, league, home_team, away_team, proba) ==
    head_to_head_loaded(load_league_model(st, league),
                        load_league_data(st, league),
                        home_team, away_team, proba)

\* pd.concat([df_a, df_b], ignore_index=True)
Concat(df_a, df_b) == DataFrame(df_a.columns \cup df_b.columns, df_a.rows \o df_b.rows)

\* the result dictionary of predict_cross_league
cross_league_result(outcome_probs, scoreline, team_a, league_a, team_b, league_b) ==
    Ok([team_a_win |-> outcome_probs.home_win,
        draw |-> outcome_probs.draw,
        team_b_win |-> outcome_probs.away_win,
        predicted_team_a_goals |-> scoreline.value.predicted_home_goals,
        predicted_team_b_goals |-> scoreline.value.predicted_away_goals,
        team_a |-> team_a,
        team_b |-> team_b,
        league_a |-> league_a,
        league_b |-> league_b])

\* the ensemble read with the first model's class list, then the scoreline
\* over the two tables concatenated
cross_league_by_label(combined_df, team_a, league_a, team_b, league_b, outcome_probs) ==
    cross_league_result(outcome_probs,
                        predict_scoreline(combined_df, team_a, team_b,
                                          outcome_probs),
                        team_a, league_a, team_b, league_b)

\* the two answers averaged with the accuracy weights, position by position
cross_league_ensemble(combined_df, team_a, league_a, team_b, league_b, proba_ensemble, win, draw, loss) ==
    IF win = 0 \/ draw = 0 \/ loss = 0
    THEN Raise("ValueError", "label not in classes")
    ELSE cross_league_by_label(combined_df, team_a, league_a, team_b, league_b,
                               [home_win |-> proba_ensemble[win],
                                draw |-> proba_ensemble[draw],
                                away_win |-> proba_ensemble[loss]])

\* after both sides' features are aggregated: they are standardized together,
\* the difference vector goes to both classifiers, which answer proba_a and
\* proba_b
cross_league_from_stats(model_data_a, model_data_b, df_a, df_b, team_a, league_a, team_b, league_b, stats_a, stats_b, proba_a, proba_b) ==
    LET weight_a == model_data_a.test_accuracy
        weight_b == model_data_b.test_accuracy
    IN  IF Raised(stats_a) THEN stats_a
        ELSE IF Raised(stats_b) THEN stats_b
        ELSE IF Len(stats_a.value) # Len(stats_b.value)
        THEN Raise("ValueError", "inhomogeneous shape")
        ELSE IF weight_a.tag = "absent" \/ weight_b.tag = "absent"
        THEN Raise("KeyError", "test_accuracy")
        ELSE IF weight_a.tag = "none" \/ weight_b.tag = "none"
        THEN Raise("TypeError", "test_accuracy")
        ELSE cross_league_ensemble(
                 Concat(df_a, df_b), team_a, league_a, team_b, league_b,
                 Ensemble(proba_a, proba_b, weight_a.v, weight_b.v),
                 LabelIndex(model_data_a.classes, "win"),
                 LabelIndex(model_data_a.classes, "draw"),
                 LabelIndex(model_data_a.classes, "loss"))

\* after both names are resolved
cross_league_from_teams(model_data_a, model_data_b, df_a, df_b, team_a_found, league_a, team_b_found, league_b, proba_a, proba_b) ==
    IF Raised(team_a_found) THEN team_a_found
    ELSE IF Raised(team_b_found) THEN team_b_found
    ELSE cross_league_from_stats(
             model_data_a, model_data_b, df_a, df_b,
             team_a_found.value, league_a, team_b_found.value, league_b,
             get_team_stats(df_a, team_a_found.value, model_data_a),
             get_team_stats(df_b, team_b_found.value, model_data_b),
             proba_a, proba_b)

\* after both models and both tables are loaded
cross_league_loaded(model_data_a, model_data_b, data_a, data_b, team_a, league_a, team_b, league_b, proba_a, proba_b) ==
    IF Raised(model_data_a) THEN model_data_a
    ELSE IF Raised(model_data_b) THEN model_data_b
    ELSE IF Raised(data_a) THEN data_a
    ELSE IF Raised(data_b) THEN data_b
    ELSE cross_league_from_teams(
             model_data_a.value, model_data_b.value, data_a.value, data_b.value,
             find_team(team_a, data_a.value), league_a,
             find_team(team_b, data_b.value), league_b, proba_a, proba_b)

\* predict_cross_league; proba_a and proba_b are what the two models answer
\* for the standardized difference vector, each in its own class order
predict_cross_league(st, team_a, league_a, team_b, league_b, proba_a, proba_b) ==
    cross_league_loaded(load_league_model(st, league_a),
                        load_league_model(st, league_b),
                        load_league_data(st, league_a),
                        load_league_data(st, league_b),
                        team_a, league_a, team_b, league_b, proba_a, proba_b)

\* backend/main.py: the status code an endpoint answers a service result with
HttpStatus(res) ==
    IF res.kind = "ok" THEN 200
    ELSE IF res.kind = "FileNotFoundError" THEN 404
    ELSE IF res.kind = "ValueError" THEN 400
    ELSE 500

\* what an endpoint answers for a service result
Response(op, res) == [op |-> op, res |-> res, status |-> HttpStatus(res)]

(***************************************************************************)
(* Stores and requests explored for the prediction endpoints.              *)
(***************************************************************************)
LeagueA == "premier_league"

LeagueB == "la_liga"

Leagues == {LeagueA, LeagueB}

\* scikit-learn lists the classes sorted: draw, loss, win
SortedClasses == <<"draw", "loss", "win">>

\* accuracy weights an artifact may carry
Accuracies == {AbsentKey, NoneValue, Num(R(0)), Num(Frac(1, 2)), Num(R(1))}

\* team names a request carries: "b", " A" and "c"
RequestNames == {<<98>>, <<Space, 65>>, <<99>>}

\* what predict_proba may answer: distributions over the three classes
ProbaVectors ==
    {<<Pct(50), Pct(30), Pct(20)>>, <<Pct(10), Pct(20), Pct(70)>>,
     <<Pct(100), Pct(0), Pct(0)>>}

\* "Ab" v "b" played 2-1, "b" v "a" played 0-0, "a" v "Ab" still to play
TableA ==
    Table(<<PlayedRow(<<65, 98>>, <<98>>, <<2, 1>>, 2024),
            PlayedRow(<<98>>, <<97>>, <<0, 0>>, 2024),
            ScheduledRow(<<97>>, <<65, 98>>, 2025)>>)

\* "ba" v "A" played 1-2, "A" v "ab" played 1-0
TableB ==
    Table(<<PlayedRow(<<98, 97>>, <<65>>, <<1, 2>>, 2024),
            PlayedRow(<<65>>, <<97, 98>>, <<1, 0>>, 2025)>>)

StoreOf(model_a, table_a, model_b, table_b) ==
    (LeagueA :> Artifacts(TRUE, model_a, TRUE, table_a))
        @@ (LeagueB :> Artifacts(TRUE, model_b, TRUE, table_b))

\* stores whose two models declare their classes in any two orders
StoresByClasses ==
    {StoreOf(ModelData(ca, Num(Frac(1, 2))), TableA,
             ModelData(cb, Num(Frac(3, 4))), TableB) :
        ca \in ClassOrders, cb \in ClassOrders}

\* stores whose two models carry any two accuracy weights
StoresByAccuracy ==
    {StoreOf(ModelData(SortedClasses, wa), TableA,
             ModelData(<<"win", "draw", "loss">>, wb), TableB) :
        wa \in Accuracies, wb \in Accuracies}

\* histories among the teams "Ab", "b" and "a", and one of twelve teams
LeagueHistories ==
    {Table(rows) :
        rows \in SeqsUpTo({NameRow(q[1], q[2]) :
                              q \in {p \in {<<65, 98>>, <<98>>, <<97>>}
                                            \X {<<65, 98>>, <<98>>, <<97>>} :
                                          p[1] # p[2]}}, MaxRows)}
        \cup {BigHistory}

\* stores whose first league holds any of these histories
StoresByHistory ==
    {StoreOf(ModelData(SortedClasses, Num(Frac(1, 2))), h,
             ModelData(SortedClasses, Num(Frac(3, 4))), TableB) :
        h \in LeagueHistories}

\* stores with an artifact of a league absent from the disk
StoresByAbsence ==
    {[l \in Leagues |->
        Artifacts(l \notin no_model, ModelData(SortedClasses, Num(Frac(1, 2))),
                  l \notin no_data, IF l = LeagueA THEN TableA ELSE TableB)] :
        no_model \in SUBSET Leagues, no_data \in SUBSET Leagues}

Stores ==
    StoresByClasses \cup StoresByAccuracy \cup StoresByHistory \cup StoresByAbsence

(***************************************************************************)
(* Specification of the prediction endpoints: Init draws the store, every  *)
(* step serves one request (backend/main.py calling the service).          *)
(***************************************************************************)
Init ==
    /\ store \in Stores
    /\ call = NoCall
    /\ ret = NoRet

\* POST /api/predict/head-to-head
PredictHeadToHead ==
    \E league \in Leagues, home_team \in RequestNames, away_team \in RequestNames,
       proba \in ProbaVectors :
        /\ call = NoCall
        /\ call' = [op |-> "head_to_head", league |-> league,
                    home_team |-> home_team, away_team |-> away_team,
                    proba |-> proba]
        /\ ret' = Response("predict_head_to_head",
                           predict_head_to_head(store, league, home_team,
                                                away_team, proba))
        /\ UNCHANGED store

\* POST /api/predict/cross-league
PredictCrossLeague ==
    \E league_a \in Leagues, league_b \in Leagues,
       team_a \in RequestNames, team_b \in RequestNames,
       proba_a \in ProbaVectors, proba_b \in ProbaVectors :
        /\ call = NoCall
        /\ call' = [op |-> "cross_league", team_a |-> team_a,
                    league_a |-> league_a, team_b |-> team_b,
                    league_b |-> league_b, proba_a |-> proba_a,
                    proba_b |-> proba_b]
        /\ ret' = Response("predict_cross_league",
                           predict_cross_league(store, team_a, league_a, team_b,
                                                league_b, proba_a, proba_b))
        /\ UNCHANGED store

\* the response is sent; the service waits for the next request
Respond ==
    /\ call # NoCall
    /\ call' = NoCall
    /\ ret' = NoRet
    /\ UNCHANGED store

Next == PredictHeadToHead \/ PredictCrossLeague \/ Respond

Spec == Init /\ [][Next]_vars

(***************************************************************************)
(* Claims about the prediction endpoints.                                  *)
(***************************************************************************)
HeadToHeadDone == ret.op = "predict_head_to_head"

CrossLeagueDone == ret.op = "predict_cross_league"

Returned == ret.res.kind = "ok"

IsProbability(x) == RLe(R(0), x) /\ RLe(x, R(1))

IsDistribution(p, d, q) ==
    /\ IsProbability(p) /\ IsProbability(d) /\ IsProbability(q)
    /\ RAdd(p, RAdd(d, q)) = R(1)

AccuracyOf(league) == store[league].model.test_accuracy

\* an accuracy weight in (0, 1]
ProperWeight(w) == w.tag = "num" /\ RLt(R(0), w.v) /\ RLe(w.v, R(1))

\* C1: every head-to-head result, and every cross-league result of models
\* whose accuracy weights lie in (0,1], carries three probabilities that each
\* lie in [0,1] and sum to 1.
C1_ProbabilitiesNormalized ==
    /\ (HeadToHeadDone /\ Returned) =>
          IsDistribution(ret.res.value.home_win, ret.res.value.draw,
                         ret.res.value.away_win)
    /\ (CrossLeagueDone /\ Returned /\ ProperWeight(AccuracyOf(call.league_a))
            /\ ProperWeight(AccuracyOf(call.league_b))) =>
          IsDistribution(ret.res.value.team_a_win, ret.res.value.draw,
                         ret.res.value.team_b_win)

\* C1 witness: a cross-league result blended from two different answers of
\* two leagues' models with different proper weights.
C1_Witness ==
    /\ CrossLeagueDone /\ Returned
    /\ call.league_a # call.league_b
    /\ call.proba_a # call.proba_b
    /\ ProperWeight(AccuracyOf(call.league_a))
    /\ ProperWeight(AccuracyOf(call.league_b))
    /\ AccuracyOf(call.league_a) # AccuracyOf(call.league_b)

\* C2: a head-to-head result maps the model's answer by label name: home_win
\* is the probability at the position where the class list holds "win", draw
\* the one at "draw", away_win the one at "loss", for every class order.
C2_HeadToHeadByLabel ==
    (HeadToHeadDone /\ Returned) =>
        \A i \in 1..3 :
            LET label == store[call.league].model.classes[i]
            IN  /\ label = "win" => ret.res.value.home_win = call.proba[i]
                /\ label = "draw" => ret.res.value.draw = call.proba[i]
                /\ label = "loss" => ret.res.value.away_win = call.proba[i]

\* C2 witness: a result for a model listing win, draw, loss in that order
\* (no label at its sorted position) and answering three distinct values.
C2_Witness ==
    /\ HeadToHeadDone /\ Returned
    /\ store[call.league].model.classes = <<"win", "draw", "loss">>
    /\ Cardinality({call.proba[i] : i \in 1..3}) = 3

\* the accuracy-weighted average of what the two models say about one label
WeightedByLabel(label) ==
    LET ca == store[call.league_a].model.classes
        cb == store[call.league_b].model.classes
        i == CHOOSE k \in 1..3 : ca[k] = label
        j == CHOOSE k \in 1..3 : cb[k] = label
        wa == AccuracyOf(call.league_a).v
        wb == AccuracyOf(call.league_b).v
    IN  RDiv(RAdd(RMul(call.proba_a[i], wa), RMul(call.proba_b[j], wb)),
             RAdd(wa, wb))

\* C3: a cross-league result gives, for each label, the accuracy-weighted
\* average of the probabilities the two models assign to that same label,
\* whatever order each model lists its classes in.
C3_CrossLeagueByLabel ==
    (CrossLeagueDone /\ Returned) =>
        /\ ret.res.value.team_a_win = WeightedByLabel("win")
        /\ ret.res.value.draw = WeightedByLabel("draw")
        /\ ret.res.value.team_b_win = WeightedByLabel("loss")

Available(league) == store[league].has_model /\ store[league].has_data

\* the name matches no team of the history, neither exactly nor as a substring
Unknown(name, df) ==
    \A t \in AvailableTeams(df) : ~Contains(lower(t), lower(strip(name)))

\* names in strictly ascending order
Ascending(seq) == \A i \in 1..(Len(seq) - 1) : StrLess(seq[i], seq[i + 1])

\* the result is the "team not found" error naming the first names of df's
\* teams in sorted order, ten at most, answered as a 400
NotFoundOver(df) ==
    /\ ret.res.kind = "ValueError"
    /\ ret.res.what = "team not found"
    /\ ret.status = 400
    /\ Len(ret.res.hint) <= 10
    /\ Len(ret.res.hint) = 10 \/ Len(ret.res.hint) = Cardinality(AvailableTeams(df))
    /\ Ascending(ret.res.hint)
    /\ \A i \in 1..Len(ret.res.hint) : ret.res.hint[i] \in AvailableTeams(df)
    /\ \A t \in AvailableTeams(df) :
          \/ \E i \in 1..Len(ret.res.hint) : ret.res.hint[i] = t
          \/ \A i \in 1..Len(ret.res.hint) : StrLess(ret.res.hint[i], t)

\* C4: with the league's model and history on disk, a request naming a team
\* that matches no team of the history fails with the "team not found"
\* ValueError (Invalid Input) listing at most the first 10 sorted names; it
\* fails in no other way and returns nothing.
C4_UnknownTeamIsInvalidInput ==
    /\ (HeadToHeadDone /\ Available(call.league)
            /\ (Unknown(call.home_team, store[call.league].df)
                  \/ Unknown(call.away_team, store[call.league].df))) =>
          NotFoundOver(store[call.league].df)
    /\ (CrossLeagueDone /\ Available(call.league_a) /\ Available(call.league_b)
            /\ Unknown(call.team_a, store[call.league_a].df)) =>
          NotFoundOver(store[call.league_a].df)
    /\ (CrossLeagueDone /\ Available(call.league_a) /\ Available(call.league_b)
            /\ ~Unknown(call.team_a, store[call.league_a].df)
            /\ Unknown(call.team_b, store[call.league_b].df)) =>
          NotFoundOver(store[call.league_b].df)

\* C4 witness: a head-to-head request whose home team resolves and whose
\* away team is unknown, over a history of more than ten teams, answered
\* with the error and a hint of exactly ten names.
C4_Witness ==
    /\ HeadToHeadDone /\ Available(call.league)
    /\ ~Unknown(call.home_team, store[call.league].df)
    /\ Unknown(call.away_team, store[call.league].df)
    /\ Cardinality(AvailableTeams(store[call.league].df)) > 10
    /\ ret.res.kind = "ValueError"
    /\ Len(ret.res.hint) = 10

\* the weight is zero, None or missing from the artifact
DegenerateWeight(w) == w.tag # "num" \/ w.v = R(0)

\* C10: a cross-league call over a model whose accuracy weight is zero or
\* undefined returns no probability triple (it fails; the claim adds that the
\* failure is an Invalid Input error, which any returned triple refutes too).
C10_DegenerateWeightIsFatal ==
    (CrossLeagueDone /\ Available(call.league_a) /\ Available(call.league_b)
        /\ (DegenerateWeight(AccuracyOf(call.league_a))
              \/ DegenerateWeight(AccuracyOf(call.league_b)))) =>
        ~Returned

(***************************************************************************)
(* Cross-league prediction called both ways round.  The classifier of a    *)
(* league's artifact is a function of the difference vector it is given;   *)
(* the same two classifiers answer the call and the call with the sides    *)
(* swapped.                                                                *)
(***************************************************************************)
\* no difference vector: the call raised before reaching the classifiers
NoDiff == <<>>

\* stats_normalized.iloc[0] - stats_normalized.iloc[1]
feature_diff_from_stats(stats_a, stats_b) ==
    IF Raised(stats_a) \/ Raised(stats_b) THEN NoDiff
    ELSE IF Len(stats_a.value) # Len(stats_b.value) THEN NoDiff
    ELSE [i \in 1..Len(stats_a.value) |->
            RSub(Standardize(stats_a.value[i], stats_b.value[i])[1],
                 Standardize(stats_a.value[i], stats_b.value[i])[2])]

feature_diff_from_teams(model_data_a, model_data_b, df_a, df_b, team_a_found, team_b_found) ==
    IF Raised(team_a_found) \/ Raised(team_b_found) THEN NoDiff
    ELSE feature_diff_from_stats(
             get_team_stats(df_a, team_a_found.value, model_data_a),
             get_team_stats(df_b, team_b_found.value, model_data_b))

feature_diff_loaded(model_data_a, model_data_b, data_a, data_b, team_a, team_b) ==
    IF Raised(model_data_a) \/ Raised(model_data_b) \/ Raised(data_a)
       \/ Raised(data_b)
    THEN NoDiff
    ELSE feature_diff_from_teams(model_data_a.value, model_data_b.value,
                                 data_a.value, data_b.value,
                                 find_team(team_a, data_a.value),
                                 find_team(team_b, data_b.value))

\* the difference vector predict_cross_league hands to both classifiers
cross_league_feature_diff(st, team_a, league_a, team_b, league_b) ==
    feature_diff_loaded(load_league_model(st, league_a),
                        load_league_model(st, league_b),
                        load_league_data(st, league_a),
                        load_league_data(st, league_b), team_a, team_b)

\* model.predict_proba(feature_diff)[0]
predict_proba(model, feature_diff) ==
    IF feature_diff = NoDiff THEN <<>> ELSE model[feature_diff]

\* predict_cross_league with the classifiers of the two artifacts
cross_league_classified(st, team_a, league_a, team_b, league_b, models, feature_diff) ==
    predict_cross_league(st, team_a, league_a, team_b, league_b,
                         predict_proba(models[league_a], feature_diff),
                         predict_proba(models[league_b], feature_diff))

\* difference vectors of one standardized feature column
FeatureDiffs == {<<R(0 - 2)>>, <<R(0)>>, <<R(2)>>}

\* fitted classifiers: any answer for any difference vector
Classifiers ==
    [FeatureDiffs -> {<<Pct(50), Pct(30), Pct(20)>>, <<Pct(10), Pct(20), Pct(70)>>}]

\* both models list their classes alike and carry proper weights
SwapStores ==
    {StoreOf(ModelData(SortedClasses, Num(wa)), TableA,
             ModelData(SortedClasses, Num(wb)), TableB) :
        wa \in {Frac(1, 2)}, wb \in {Frac(1, 2), Frac(3, 4)}}

SwapCalls ==
    {[op |-> "swap", team_a |-> ta, league_a |-> la, team_b |-> tb,
      league_b |-> lb, models |-> m] :
        ta \in RequestNames, tb \in RequestNames, la \in Leagues, lb \in Leagues,
        m \in [Leagues -> Classifiers]}

NoSwapRet == [op |-> "none", forward |-> Pending, backward |-> Pending]

InitSwap ==
    /\ store \in SwapStores
    /\ call \in SwapCalls
    /\ ret = NoSwapRet

\* the call as requested
CrossLeagueForward ==
    /\ call.op = "swap"
    /\ ret.forward = Pending
    /\ ret' = [ret EXCEPT !.op = "swap",
                          !.forward =
                              cross_league_classified(
                                  store, call.team_a, call.league_a,
                                  call.team_b, call.league_b, call.models,
                                  cross_league_feature_diff(
                                      store, call.team_a, call.league_a,
                                      call.team_b, call.league_b))]
    /\ UNCHANGED <<store, call>>

\* the call with (team_a, league_a) and (team_b, league_b) exchanged
CrossLeagueBackward ==
    /\ call.op = "swap"
    /\ ret.backward = Pending
    /\ ret' = [ret EXCEPT !.op = "swap",
                          !.backward =
                              cross_league_classified(
                                  store, call.team_b, call.league_b,
                                  call.team_a, call.league_a, call.models,
                                  cross_league_feature_diff(
                                      store, call.team_b, call.league_b,
                                      call.team_a, call.league_a))]
    /\ UNCHANGED <<store, call>>

NextSwap == CrossLeagueForward \/ CrossLeagueBackward

SpecSwap == InitSwap /\ [][NextSwap]_vars

BothWaysReturned ==
    /\ call.op = "swap"
    /\ ret.forward # Pending /\ ret.forward.kind = "ok"
    /\ ret.backward # Pending /\ ret.backward.kind = "ok"

Tolerance == Frac(1, 1000000)

Close(x, y) == RLe(RAbs(RSub(x, y)), Tolerance)

\* C11: when a cross-league call and the call with the two sides swapped both
\* return, team_a_win and team_b_win have exchanged their values and draw is
\* the same, within the floating tolerance.
C11_SwapSymmetric ==
    BothWaysReturned =>
        /\ Close(ret.forward.value.team_a_win, ret.backward.value.team_b_win)
        /\ Close(ret.forward.value.team_b_win, ret.backward.value.team_a_win)
        /\ Close(ret.forward.value.draw, ret.backward.value.draw)

(***************************************************************************)
(* Batch Predictor: get_upcoming_matches.                                  *)
(***************************************************************************)
\* the season label the batch predictor calls current ("2025-2026")
current_season == 2025

\* days are numbered from a Monday; NoDay is text that is not a date
NoDay == 0 - 1

\* a date cell as read from the csv file
Text(day) == [type |-> "str", day |-> day]

Timestamp(day) == [type |-> "datetime64", day |-> day]

NaT == Timestamp(NoDay)

\* pd.to_datetime(cell, errors='coerce')
to_datetime(cell) == Timestamp(cell.day)

\* df["date"] = pd.to_datetime(df["date"], errors='coerce')
convert_dates(df) ==
    DataFrame(df.columns,
              [i \in 1..Len(df.rows) |-> [df.rows[i] EXCEPT !.date = to_datetime(@)]])

\* Timestamp.weekday(): Monday is 0, Sunday is 6
weekday(today) == today % 7

\* the Sunday on or before today
week_start(today) == today - ((weekday(today) + 1) % 7)

week_end(today) == week_start(today) + 13

\* a format that writes the day without padding
isoformat_unpadded(ts) ==
    IF ts.day < 10 THEN <<48 + ts.day>>
    ELSE <<48 + (ts.day \div 10), 48 + (ts.day % 10)>>

\* Timestamp.isoformat(): every field zero-padded to its full width
isoformat(ts) == <<48 + (ts.day \div 10), 48 + (ts.day % 10)>>

\* a row of the current season dated within the two weeks; NaT compares False
in_window(r, today) ==
    /\ r.season = current_season
    /\ r.date.day # NoDay
    /\ r.date.day >= week_start(today)
    /\ r.date.day <= week_end(today)

current_week_matches(df, today) ==
    Filter(df, [i \in 1..Len(df.rows) |-> in_window(df.rows[i], today)])

\* the orders sort_values('date') may leave the rows in: dates ascending,
\* rows of one date in any order (the default sort is not stable)
SortedOrders(rows) ==
    {p \in Permutations(1..Len(rows)) :
        \A i \in 1..(Len(rows) - 1) : rows[p[i]].date.day <= rows[p[i + 1]].date.day}

\* a row with home_team_lower and away_team_lower added
with_lower(r) ==
    [c \in (DOMAIN r) \cup {"home_team_lower", "away_team_lower"} |->
        IF c = "home_team_lower" THEN lower(r.home_team)
        ELSE IF c = "away_team_lower" THEN lower(r.away_team)
        ELSE r[c]]

with_lower_columns(df) ==
    DataFrame(df.columns \cup {"home_team_lower", "away_team_lower"},
              [i \in 1..Len(df.rows) |-> with_lower(df.rows[i])])

\* played rows of earlier seasons, with the lower-cased team columns
completed_df(df) ==
    with_lower_columns(
        Filter(df, [i \in 1..Len(df.rows) |->
                      df.rows[i].status # Scheduled
                          /\ df.rows[i].season # current_season]))

\* team_stats_cache: an entry for each team whose features could be computed
team_stats_cache(completed, matches, model_data) ==
    [team \in {matches[i].home_team : i \in 1..Len(matches)}
                \cup {matches[i].away_team : i \in 1..Len(matches)} |->
        get_team_stats(completed, team, model_data)]

match_dict(match, outcome_probs, scoreline) ==
    Ok([date |-> isoformat(match.date),
        home_team |-> match.home_team,
        away_team |-> match.away_team,
        predicted_home_win |-> outcome_probs.home_win,
        predicted_draw |-> outcome_probs.draw,
        predicted_away_win |-> outcome_probs.away_win,
        predicted_home_goals |-> scoreline.value.predicted_home_goals,
        predicted_away_goals |-> scoreline.value.predicted_away_goals])

\* a loop that reports the goals of a fixture already played instead of
\* estimating them
match_from_probs_result_known(completed, match, outcome_probs) ==
    match_dict(match, outcome_probs,
               IF IsNaN(match.home_goals) \/ IsNaN(match.away_goals)
               THEN predict_scoreline(completed, match.home_team, match.away_team,
                                      outcome_probs)
               ELSE Ok([predicted_home_goals |-> match.home_goals,
                        predicted_away_goals |-> match.away_goals]))

\* predict_scoreline on the completed history, then the match_dict
match_from_probs(completed, match, outcome_probs) ==
    match_dict(match, outcome_probs,
               predict_scoreline(completed, match.home_team, match.away_team,
                                 outcome_probs))

match_by_label(completed, match, probs, win, draw, loss) ==
    IF win = 0 \/ draw = 0 \/ loss = 0
    THEN Raise("ValueError", "label not in classes")
    ELSE match_from_probs(completed, match,
                          [home_win |-> probs[win], draw |-> probs[draw],
                           away_win |-> probs[loss]])

\* probs is what model.predict_proba answered, or the exception it raised
match_from_answer(completed, match, classes, probs) ==
    IF Raised(probs) THEN probs
    ELSE match_by_label(completed, match, probs.value,
                        LabelIndex(classes, "win"), LabelIndex(classes, "draw"),
                        LabelIndex(classes, "loss"))

\* one turn of the loop over the fixtures: a match_dict, or the exception
\* after which the loop continues with the next fixture
predict_match(completed, match, model_data, model, home_stats, away_stats) ==
    IF Raised(home_stats) \/ Raised(away_stats)
    THEN Raise("continue", "missing team stats")
    ELSE match_from_answer(completed, match, model_data.classes,
                           model[VecSub(home_stats.value, away_stats.value)])

Values(results) == [k \in 1..Len(results) |-> results[k].value]

\* the elements of seq at the positions kept, in that order
Pick(seq, kept) == [k \in 1..Len(kept) |-> seq[kept[k]]]

\* a loop that ends at the first fixture that fails
appended_until_raise(results) ==
    Pick(results,
         SelectSeq([i \in 1..Len(results) |-> i],
                   LAMBDA i : \A j \in 1..i : ~Raised(results[j])))

\* the match_dicts appended to predictions
appended(results) ==
    Pick(results,
         SelectSeq([i \in 1..Len(results) |-> i], LAMBDA i : ~Raised(results[i])))

predictions_from_cache(completed, matches, model_data, model, stats) ==
    Values(appended([i \in 1..Len(matches) |->
                       predict_match(completed, matches[i], model_data, model,
                                     stats[matches[i].home_team],
                                     stats[matches[i].away_team])]))

\* a key that keeps the letter case of the names
match_key_cased(match) == <<match.date, match.home_team, match.away_team>>

match_key(match) == <<match.date, lower(match.home_team), lower(match.away_team)>>

\* the entries whose key was not seen earlier in the list
deduplicated_predictions(predictions) ==
    Pick(predictions,
         SelectSeq([i \in 1..Len(predictions) |-> i],
                   LAMBDA i : \A j \in 1..(i - 1) :
                       match_key(predictions[j]) # match_key(predictions[i])))

\* list.sort(key=lambda x: x["date"]): stable, by the date text
insert_by_date(list, match) ==
    SelectSeq(list, LAMBDA m : ~StrLess(match.date, m.date))
        \o <<match>> \o SelectSeq(list, LAMBDA m : StrLess(match.date, m.date))

RECURSIVE sort_by_date(_)
sort_by_date(list) ==
    IF list = <<>> THEN <<>>
    ELSE insert_by_date(sort_by_date(SubSeq(list, 1, Len(list) - 1)),
                        list[Len(list)])

upcoming_from_model(completed, matches, model_data, model) ==
    IF Raised(model_data) THEN model_data
    ELSE Ok(sort_by_date(deduplicated_predictions(
                predictions_from_cache(completed, matches, model_data.value, model,
                    team_stats_cache(completed, matches, model_data.value)))))

\* after the window is cut: order is the order sort_values left the rows in
upcoming_from_window(df, window, order, model_data, model) ==
    IF window.rows = <<>> THEN Ok(<<>>)
    ELSE IF ~({"status", "home_team", "away_team"} \subseteq df.columns)
    THEN Raise("KeyError", "status")
    ELSE upcoming_from_model(completed_df(df),
                             [i \in 1..Len(order) |-> window.rows[order[i]]],
                             model_data, model)

\* after the dates of the cached table are converted
upcoming_from_dates(df, today, order, model_data, model) ==
    IF "season" \notin df.columns THEN Raise("KeyError", "season")
    ELSE upcoming_from_window(df, current_week_matches(df, today), order,
                              model_data, model)

upcoming_from_data(data, today, order, model_data, model) ==
    IF Raised(data) THEN data
    ELSE IF "date" \notin data.value.columns THEN Raise("KeyError", "date")
    ELSE upcoming_from_dates(convert_dates(data.value), today, order,
                             model_data, model)

\* the body of the try block
upcoming_try(st, league, today, order, model) ==
    upcoming_from_data(load_league_data(st, league), today, order,
                       load_league_model(st, league), model)

\* a handler that lets the exception through
except_reraised(r) == r

\* except Exception: return []
except_return_empty(r) == IF Raised(r) THEN Ok(<<>>) ELSE r

\* get_upcoming_matches: today is the day the call is made, model the fitted
\* classifier of the league's artifact
get_upcoming_matches(st, league, today, order, model) ==
    except_return_empty(upcoming_try(st, league, today, order, model))

\* the rows sort_values is given: the window, empty when the call fails earlier
window_rows(data, today) ==
    IF Raised(data) THEN <<>>
    ELSE IF ~({"date", "season"} \subseteq data.value.columns) THEN <<>>
    ELSE current_week_matches(convert_dates(data.value), today).rows

(***************************************************************************)
(* Inputs explored for the Batch Predictor.                                *)
(***************************************************************************)
\* most fixtures of the current season in a table
MaxFixtures == 2

\* a row with its date cell
Dated(r, cell) ==
    [c \in (DOMAIN r) \cup {"date"} |-> IF c = "date" THEN cell ELSE r[c]]

BatchTable(rows) == DataFrame(AllColumns \cup {"date"}, rows)

\* the earlier season: "A" v "b" 1-0 with feature 1, "b" v "A" 0-0 with
\* feature 3
BatchHistory ==
    <<Dated(Row(<<65>>, <<98>>, R(1), R(0), 2024, Played, R(1)), Text(5)),
      Dated(Row(<<98>>, <<65>>, R(0), R(0), 2024, Played, R(3)), Text(5))>>

\* "A" v "b", "a" v "B", "b" v "A", and "A" v "c" whose away side never played
FixturePairs ==
    {<<<<65>>, <<98>>>>, <<<<97>>, <<66>>>>, <<<<98>>, <<65>>>>, <<<<65>>, <<99>>>>}

\* the days fixtures are dated, and a fixture whose date is not a date
FixtureDates == {Text(8), Text(12), Text(20)}

FixtureRows ==
    {Dated(ScheduledRow(q[1], q[2], current_season), d) :
        q \in FixturePairs, d \in FixtureDates}
        \cup {Dated(ScheduledRow(<<65>>, <<98>>, current_season), Text(NoDay))}

BatchTables ==
    {BatchTable(BatchHistory \o fixtures) :
        fixtures \in SeqsUpTo(FixtureRows, MaxFixtures)}

\* the difference vectors of "A" and "b" over BatchHistory
BatchDiffs == {<<Frac(0 - 2, 5)>>, <<Frac(2, 5)>>}

\* what predict_proba does with a difference vector: answer or raise
BatchAnswers ==
    {Ok(<<Pct(50), Pct(30), Pct(20)>>), Raise("ValueError", "predict_proba")}

BatchClassifiers == [BatchDiffs -> BatchAnswers]

\* a Wednesday, whose window is days 6 to 19, and a Sunday, 13 to 26
Todays == {9, 13}

\* the first league holds a dated table; the table of the second has no date
\* column; an artifact may be absent or declare two classes only
BatchStores ==
    {StoreOf(ModelData(SortedClasses, Num(Frac(1, 2))), t,
             ModelData(SortedClasses, Num(Frac(1, 2))), TableB) :
        t \in BatchTables}
        \cup {[l \in Leagues |->
                 Artifacts(has_model, ModelData(classes, Num(Frac(1, 2))), has_data,
                           BatchTable(BatchHistory \o <<Dated(ScheduledRow(<<65>>, <<98>>, current_season), Text(12))>>))] :
                has_model \in BOOLEAN, has_data \in BOOLEAN,
                classes \in {SortedClasses, <<"loss", "win">>}}

\* any classifier for the first league, one that always answers for the second
BatchCalls ==
    {[op |-> "upcoming", league |-> LeagueA, today |-> today, model |-> model] :
        today \in Todays, model \in BatchClassifiers}
        \cup {[op |-> "upcoming", league |-> LeagueB, today |-> today,
                model |-> [d \in BatchDiffs |-> Ok(<<Pct(50), Pct(30), Pct(20)>>)]] :
                 today \in Todays}

NoBatchRet == [op |-> "none", res |-> Pending, order |-> <<>>]

InitBatch ==
    /\ store \in BatchStores
    /\ call \in BatchCalls
    /\ ret = NoBatchRet

\* GET /api/upcoming_matches/{league}
UpcomingMatches ==
    /\ ret.op = "none"
    /\ \E order \in SortedOrders(window_rows(load_league_data(store, call.league),
                                             call.today)) :
          ret' = [op |-> "get_upcoming_matches",
                  res |-> get_upcoming_matches(store, call.league, call.today,
                                               order, call.model),
                  order |-> order]
    /\ UNCHANGED <<store, call>>

NextBatch == UpcomingMatches

SpecBatch == InitBatch /\ [][NextBatch]_vars

(***************************************************************************)
(* Properties of the Batch Predictor.                                      *)
(***************************************************************************)
BatchReturned == ret.op = "get_upcoming_matches"

BatchData == load_league_data(store, call.league)

BatchModel == load_league_model(store, call.league)

\* the call got as far as the loop over the fixtures
BatchReady ==
    /\ BatchReturned
    /\ ~Raised(BatchData)
    /\ ~Raised(BatchModel)
    /\ "date" \in BatchData.value.columns

\* the fixtures of the window in the order the loop takes them
BatchWindow == Pick(window_rows(BatchData, call.today), ret.order)

BatchCompleted == completed_df(convert_dates(BatchData.value))

Computable(team) ==
    ~Raised(get_team_stats(BatchCompleted, team, BatchModel.value))

\* the classifier raises for the fixture, or a label is not among the classes
PredictionFails(row) ==
    \/ \E label \in Labels : LabelIndex(BatchModel.value.classes, label) = 0
    \/ Raised(call.model[VecSub(
           get_team_stats(BatchCompleted, row.home_team, BatchModel.value).value,
           get_team_stats(BatchCompleted, row.away_team, BatchModel.value).value)])

Predictable(row) ==
    /\ Computable(row.home_team)
    /\ Computable(row.away_team)
    /\ ~PredictionFails(row)

\* the key of an entry of the output
EntryKey(entry) == <<entry.date, lower(entry.home_team), lower(entry.away_team)>>

RowKey(row) == <<isoformat(row.date), lower(row.home_team), lower(row.away_team)>>

InOutput(row) ==
    \E k \in 1..Len(ret.res.value) : EntryKey(ret.res.value[k]) = RowKey(row)

\* C15: a fixture of the window is in the output (by its key) exactly when
\* the features of both its teams can be computed and its prediction does not
\* fail; the fixtures that fail do not keep the others out.
C15_FailuresIsolated ==
    BatchReady =>
        \A i \in 1..Len(BatchWindow) :
            Predictable(BatchWindow[i]) <=> InOutput(BatchWindow[i])

\* a window with a fixture that fails and one that is predicted
C15_Witness ==
    /\ BatchReady
    /\ \E i, j \in 1..Len(BatchWindow) :
          /\ ~Predictable(BatchWindow[i])
          /\ ~InOutput(BatchWindow[i])
          /\ Predictable(BatchWindow[j])
          /\ InOutput(BatchWindow[j])

\* C16: no two entries of the output share the key (date, lower-cased home
\* team, lower-cased away team), and every entry carries the names of the
\* first fixture with its key in processing order.
C16_Deduplicated ==
    BatchReturned =>
        /\ \A k, l \in 1..Len(ret.res.value) :
              EntryKey(ret.res.value[k]) = EntryKey(ret.res.value[l]) => k = l
        /\ \A k \in 1..Len(ret.res.value) :
              \E i \in 1..Len(BatchWindow) :
                  /\ RowKey(BatchWindow[i]) = EntryKey(ret.res.value[k])
                  /\ \A j \in 1..(i - 1) :
                        RowKey(BatchWindow[j]) # EntryKey(ret.res.value[k])
                  /\ ret.res.value[k].home_team = BatchWindow[i].home_team
                  /\ ret.res.value[k].away_team = BatchWindow[i].away_team

\* two fixtures of one date whose names differ in letter case only
C16_Witness ==
    /\ BatchReady
    /\ Len(BatchWindow) = 2
    /\ RowKey(BatchWindow[1]) = RowKey(BatchWindow[2])
    /\ BatchWindow[1].home_team # BatchWindow[2].home_team
    /\ BatchWindow[1].away_team # BatchWindow[2].away_team
    /\ Len(ret.res.value) = 1

\* the day a date text stands for
DayOfText(text) ==
    IF Len(text) = 1 THEN text[1] - 48 ELSE (text[1] - 48) * 10 + (text[2] - 48)

\* C17: of two consecutive entries of the output, the first is not dated
\* later than the second.
C17_SortedByDate ==
    BatchReturned =>
        \A k \in 1..(Len(ret.res.value) - 1) :
            DayOfText(ret.res.value[k].date) <= DayOfText(ret.res.value[k + 1].date)

\* an output of two entries with different dates
C17_Witness ==
    /\ BatchReturned
    /\ Len(ret.res.value) = 2
    /\ DayOfText(ret.res.value[1].date) < DayOfText(ret.res.value[2].date)

(***************************************************************************)
(* The service process: load_league_model and load_league_data behind      *)
(* their lru caches.  A process p is the disk, the two caches (entries     *)
(* least recently used first) and the number of loads done per league.     *)
(***************************************************************************)
\* functools.lru_cache(maxsize=10)
maxsize == 10

lru_hit(c, key) == \E i \in 1..Len(c) : c[i].key = key

lru_value(c, key) == c[FirstIndex([i \in 1..Len(c) |-> c[i].key = key])].value

\* a hit makes the entry the most recently used one
lru_touch(c, key) ==
    SelectSeq(c, LAMBDA x : x.key # key) \o SelectSeq(c, LAMBDA x : x.key = key)

\* a cache that keeps one entry only
lru_store_one(c, key, value) == <<[key |-> key, value |-> value]>>

\* a miss stores the result; a full cache first drops its least recently used
\* entry
lru_store(c, key, value) ==
    (IF Len(c) >= maxsize THEN Tail(c) ELSE c) \o <<[key |-> key, value |-> value]>>

\* a wrapper that calls the function every time and stores nothing
lru_cache_disabled(c, key, loaded) ==
    [res |-> loaded, cache |-> c, loads |-> IF Raised(loaded) THEN 0 ELSE 1]

\* one call of a cached loader: loaded is what the loader itself returns or
\* raises; an exception is not stored
lru_cache(c, key, loaded) ==
    IF lru_hit(c, key)
    THEN [res |-> Ok(lru_value(c, key)), cache |-> lru_touch(c, key), loads |-> 0]
    ELSE IF Raised(loaded) THEN [res |-> loaded, cache |-> c, loads |-> 0]
    ELSE [res |-> loaded, cache |-> lru_store(c, key, loaded.value), loads |-> 1]

\* the cache after the object of an entry was changed in place
lru_mutated(c, key, value) ==
    [i \in 1..Len(c) |->
        IF c[i].key = key THEN [key |-> key, value |-> value] ELSE c[i]]

Process(disk) ==
    [disk |-> disk, model_cache |-> <<>>, data_cache |-> <<>>,
     loads |-> [model |-> [l \in DOMAIN disk |-> 0],
                data |-> [l \in DOMAIN disk |-> 0]]]

cached_model(p, league) ==
    lru_cache(p.model_cache, league, load_league_model(p.disk, league))

cached_data(p, league) ==
    lru_cache(p.data_cache, league, load_league_data(p.disk, league))

\* the process after the call c of load_league_model(league)
after_model(p, league, c) ==
    [p EXCEPT !.model_cache = c.cache, !.loads.model[league] = @ + c.loads]

\* the process after the call c of load_league_data(league)
after_data(p, league, c) ==
    [p EXCEPT !.data_cache = c.cache, !.loads.data[league] = @ + c.loads]

\* the process after the cached table of the league was changed in place
mutated(p, league, df) ==
    [p EXCEPT !.data_cache = lru_mutated(@, league, df)]

\* what a service call leaves: the process and the result
Served(p, res) == [store |-> p, res |-> res]

(***************************************************************************)
(* The service calls on a process.                                         *)
(***************************************************************************)
\* predict_head_to_head: the model is loaded first, the table second
head_to_head_with_model(p, league, model_data, data, home_team, away_team, proba) ==
    Served(after_data(p, league, data),
           head_to_head_loaded(model_data, data.res, home_team, away_team, proba))

head_to_head_after_model(p, league, model_data, home_team, away_team, proba) ==
    IF Raised(model_data) THEN Served(p, model_data)
    ELSE head_to_head_with_model(p, league, model_data, cached_data(p, league),
                                 home_team, away_team, proba)

head_to_head_cached(p, league, c, home_team, away_team, proba) ==
    head_to_head_after_model(after_model(p, league, c), league, c.res,
                             home_team, away_team, proba)

serve_head_to_head(p, league, home_team, away_team, proba) ==
    head_to_head_cached(p, league, cached_model(p, league), home_team,
                        away_team, proba)

\* predict_cross_league: model a, model b, table a, table b, in this order
cross_league_with_data_b(p, q, model_a, model_b, data_a, data_b) ==
    Served(after_data(p, q.league_b, data_b),
           cross_league_loaded(model_a, model_b, data_a, data_b.res, q.team_a,
                               q.league_a, q.team_b, q.league_b, q.proba_a,
                               q.proba_b))

cross_league_after_data_a(p, q, model_a, model_b, data_a) ==
    IF Raised(data_a) THEN Served(p, data_a)
    ELSE cross_league_with_data_b(p, q, model_a, model_b, data_a,
                                  cached_data(p, q.league_b))

cross_league_with_data_a(p, q, model_a, model_b, c) ==
    cross_league_after_data_a(after_data(p, q.league_a, c), q, model_a, model_b,
                              c.res)

cross_league_after_model_b(p, q, model_a, model_b) ==
    IF Raised(model_b) THEN Served(p, model_b)
    ELSE cross_league_with_data_a(p, q, model_a, model_b,
                                  cached_data(p, q.league_a))

cross_league_with_model_b(p, q, model_a, c) ==
    cross_league_after_model_b(after_model(p, q.league_b, c), q, model_a, c.res)

cross_league_after_model_a(p, q, model_a) ==
    IF Raised(model_a) THEN Served(p, model_a)
    ELSE cross_league_with_model_b(p, q, model_a, cached_model(p, q.league_b))

cross_league_cached(p, q, c) ==
    cross_league_after_model_a(after_model(p, q.league_a, c), q, c.res)

\* q carries team_a, league_a, team_b, league_b and the classifiers' answers
serve_cross_league(p, q) ==
    cross_league_cached(p, q, cached_model(p, q.league_a))

\* whether get_upcoming_matches gets as far as loading the model
upcoming_reaches_model(df, today) ==
    /\ "season" \in df.columns
    /\ current_week_matches(df, today).rows # <<>>
    /\ {"status", "home_team", "away_team"} \subseteq df.columns

upcoming_with_model(p, league, df, today, order, model, c) ==
    Served(after_model(p, league, c),
           except_return_empty(upcoming_from_dates(df, today, order, c.res, model)))

\* df is the cached table, its dates converted in place
upcoming_converted(p, league, df, today, order, model) ==
    IF upcoming_reaches_model(df, today)
    THEN upcoming_with_model(p, league, df, today, order, model,
                             cached_model(p, league))
    ELSE Served(p, except_return_empty(
                       upcoming_from_dates(df, today, order,
                                           Raise("NameError", "model_data"), model)))

upcoming_after_data(p, league, data, today, order, model) ==
    IF Raised(data) THEN Served(p, Ok(<<>>))
    ELSE IF "date" \notin data.value.columns THEN Served(p, Ok(<<>>))
    ELSE upcoming_converted(mutated(p, league, convert_dates(data.value)), league,
                            convert_dates(data.value), today, order, model)

upcoming_cached(p, league, c, today, order, model) ==
    upcoming_after_data(after_data(p, league, c), league, c.res, today, order,
                        model)

\* get_upcoming_matches on the process
serve_upcoming_matches(p, league, today, order, model) ==
    upcoming_cached(p, league, cached_data(p, league), today, order, model)

\* get_league_teams
league_teams(data) ==
    IF Raised(data) THEN data
    ELSE IF ~({"home_team", "away_team"} \subseteq data.value.columns)
    THEN Raise("KeyError", "home_team")
    ELSE Ok(sorted(AvailableTeams(data.value)))

league_teams_cached(p, league, c) ==
    Served(after_data(p, league, c), league_teams(c.res))

serve_league_teams(p, league) ==
    league_teams_cached(p, league, cached_data(p, league))

\* get_model_metrics: the accuracy keys of the artifact, None when absent
model_metrics(model_data) ==
    IF Raised(model_data) THEN model_data
    ELSE Ok([test_accuracy |->
                IF model_data.value.test_accuracy = AbsentKey THEN NoneValue
                ELSE model_data.value.test_accuracy])

model_metrics_cached(p, league, c) ==
    Served(after_model(p, league, c), model_metrics(c.res))

serve_model_metrics(p, league) ==
    model_metrics_cached(p, league, cached_model(p, league))

\* round(x, 2): nearest hundredth, exact halves to the even hundredth
Round2(x) ==
    IF IsNaN(x) THEN NaN
    ELSE LET n == 100 * x[1]
             q == n \div x[2]
             r == n - q * x[2]
             k == IF 2 * r < x[2] THEN q
                  ELSE IF 2 * r > x[2] THEN q + 1
                  ELSE IF q % 2 = 0 THEN q ELSE q + 1
         IN  Norm(k, 100)

\* a result cell that holds no label
NoResult == "nan"

\* len(df[df["result"] == label])
CountResult(df, label) ==
    Cardinality({i \in 1..Len(df.rows) : df.rows[i].result = label})

\* round((df["result"] == label).mean() * 100, 1)
Percentage(df, label) ==
    Round1(RMul(Frac(CountResult(df, label), Len(df.rows)), R(100)))

\* get_league_stats_overview
league_stats_overview(data) ==
    IF Raised(data) THEN data
    ELSE IF "result" \notin data.value.columns THEN Raise("KeyError", "result")
    ELSE Ok([total_matches |-> Len(data.value.rows),
             avg_goals_per_match |-> Round2(Mean(Column(data.value, "total_goals"))),
             home_win_percentage |-> Percentage(data.value, "win"),
             draw_percentage |-> Percentage(data.value, "draw"),
             away_win_percentage |-> Percentage(data.value, "loss")])

stats_overview_cached(p, league, c) ==
    Served(after_data(p, league, c), league_stats_overview(c.res))

serve_stats_overview(p, league) ==
    stats_overview_cached(p, league, cached_data(p, league))

\* df.dropna(subset=["season"], inplace=True)
dropna_season(df) ==
    Filter(df, [i \in 1..Len(df.rows) |-> df.rows[i].season # NoSeason])

\* df.dropna(subset=["total_goals"], inplace=True)
dropna_total_goals(df) ==
    Filter(df, [i \in 1..Len(df.rows) |-> ~IsNaN(df.rows[i].total_goals)])

\* the elements of a set of numbers in ascending order
RECURSIVE Ascend(_)
Ascend(S) ==
    IF S = {} THEN <<>>
    ELSE <<CHOOSE x \in S : \A y \in S : x <= y>>
             \o Ascend(S \ {CHOOSE x \in S : \A y \in S : x <= y})

\* df.groupby("season")["total_goals"].mean().round(2), one record per season
season_trends(df) ==
    IF df.rows = <<>> THEN Ok(<<>>)
    ELSE Ok([k \in 1..Cardinality({df.rows[i].season : i \in 1..Len(df.rows)}) |->
               [season |-> Ascend({df.rows[i].season : i \in 1..Len(df.rows)})[k],
                total_goals |->
                    Round2(Mean(Column(
                        Filter(df, [i \in 1..Len(df.rows) |->
                            df.rows[i].season =
                                Ascend({df.rows[j].season : j \in 1..Len(df.rows)})[k]]),
                        "total_goals")))]])

season_trends_cached(p, league, data) ==
    IF Raised(data) THEN Served(p, data)
    ELSE IF "season" \notin data.value.columns
    THEN Served(p, Raise("KeyError", "season"))
    ELSE Served(mutated(p, league, dropna_season(data.value)),
                season_trends(dropna_season(data.value)))

\* get_season_trends on the process
serve_season_trends(p, league) ==
    season_trends_cached(after_data(p, league, cached_data(p, league)), league,
                         cached_data(p, league).res)

\* df["result"].value_counts(): the labels present, each with its count
result_distribution(data) ==
    IF Raised(data) THEN data
    ELSE IF "result" \notin data.value.columns THEN Raise("KeyError", "result")
    ELSE Ok({[name |-> label, value |-> CountResult(data.value, label)] :
                label \in {l \in Labels : CountResult(data.value, l) > 0}})

result_distribution_cached(p, league, c) ==
    Served(after_data(p, league, c), result_distribution(c.res))

serve_result_distribution(p, league) ==
    result_distribution_cached(p, league, cached_data(p, league))

\* get_home_away_performance
home_away_performance(data) ==
    IF Raised(data) THEN data
    ELSE IF "result" \notin data.value.columns THEN Raise("KeyError", "result")
    ELSE Ok(<<[name |-> "Home Wins", value |-> CountResult(data.value, "win")],
              [name |-> "Away Wins", value |-> CountResult(data.value, "loss")],
              [name |-> "Draws", value |-> CountResult(data.value, "draw")]>>)

home_away_performance_cached(p, league, c) ==
    Served(after_data(p, league, c), home_away_performance(c.res))

serve_home_away_performance(p, league) ==
    home_away_performance_cached(p, league, cached_data(p, league))

\* df["total_goals"].value_counts().sort_index(): the goal totals present in
\* ascending order, each with the number of matches
goals_distribution(df) ==
    IF df.rows = <<>> THEN Ok(<<>>)
    ELSE Ok([k \in 1..Cardinality({df.rows[i].total_goals[1] : i \in 1..Len(df.rows)}) |->
               [name |-> R(Ascend({df.rows[i].total_goals[1] : i \in 1..Len(df.rows)})[k]),
                value |->
                    Cardinality({i \in 1..Len(df.rows) :
                        df.rows[i].total_goals[1] =
                            Ascend({df.rows[j].total_goals[1] : j \in 1..Len(df.rows)})[k]})]])

goals_distribution_cached(p, league, data) ==
    IF Raised(data) THEN Served(p, data)
    ELSE Served(mutated(p, league, dropna_total_goals(data.value)),
                goals_distribution(dropna_total_goals(data.value)))

\* get_goals_distribution on the process
serve_goals_distribution(p, league) ==
    goals_distribution_cached(after_data(p, league, cached_data(p, league)),
                              league, cached_data(p, league).res)

(***************************************************************************)
(* Specification of the service process: requests arrive and wait; the     *)
(* event loop runs one handler at a time, each to its end (every endpoint  *)
(* of backend/main.py is a coroutine without an await).  store is the      *)
(* process, call the bag of requests arrived and not yet handled, ret the  *)
(* last response.                                                          *)
(***************************************************************************)
\* most requests a process receives
MaxRequests == 2

\* a row with its result cell
Resulted(r, result) ==
    [c \in (DOMAIN r) \cup {"result"} |-> IF c = "result" THEN result ELSE r[c]]

ProcessTable(rows) == DataFrame(AllColumns \cup {"date", "result"}, rows)

\* "A" v "b" 1-0 and "b" v "A" 0-0 a season ago, "A" v "b" 1-2 without a
\* season label, and "A" v "b" to be played on day 12 of the current season
ProcessTableA ==
    ProcessTable(
        <<Resulted(BatchHistory[1], "win"), Resulted(BatchHistory[2], "draw"),
          Resulted(Dated(Row(<<65>>, <<98>>, R(1), R(2), NoSeason, Played, R(1)),
                         Text(NoDay)), "loss"),
          Resulted(Dated(ScheduledRow(<<65>>, <<98>>, current_season), Text(12)),
                   NoResult)>>)

\* the same two matches a season ago, and "b" v "A" to be played on day 12
ProcessTableB ==
    ProcessTable(
        <<Resulted(BatchHistory[1], "win"), Resulted(BatchHistory[2], "draw"),
          Resulted(Dated(ScheduledRow(<<98>>, <<65>>, current_season), Text(12)),
                   NoResult)>>)

\* both leagues on disk, or the second without its model or without its table
ProcessDisks ==
    {[l \in Leagues |->
        Artifacts(l = LeagueA \/ "model" \notin absent,
                  ModelData(SortedClasses, Num(Frac(1, 2))),
                  l = LeagueA \/ "data" \notin absent,
                  IF l = LeagueA THEN ProcessTableA ELSE ProcessTableB)] :
        absent \in {{}, {"model"}, {"data"}}}

\* what the requests of this specification carry besides their leagues
ProcessHome == <<97>>

ProcessAway == <<98>>

ProcessProba == <<Pct(50), Pct(30), Pct(20)>>

ProcessToday == 9

ProcessModel == [d \in BatchDiffs |-> Ok(ProcessProba)]

Operations ==
    {"head_to_head", "upcoming_matches", "teams", "model_metrics", "overview",
     "season_trends", "result_distribution", "home_away_performance",
     "goals_distribution"}

Requests ==
    {[op |-> op, league |-> league, league_b |-> league] :
        op \in Operations, league \in Leagues}
        \cup {[op |-> "cross_league", league |-> league_a, league_b |-> league_b] :
                league_a \in Leagues, league_b \in Leagues}

NoResponse == [op |-> "none", league |-> "none", res |-> Pending, status |-> 0]

InitProcess ==
    /\ store \in {Process(disk) : disk \in ProcessDisks}
    /\ call = [arrived |-> 0, pending |-> EmptyBag, concurrent |-> {}]
    /\ ret = NoResponse

\* the leagues a request reads
LeaguesOf(q) == {q.league, q.league_b}

Uncached(p, league) ==
    ~lru_hit(p.data_cache, league) \/ ~lru_hit(p.model_cache, league)

\* a request arrives while others may be waiting; concurrent records the
\* leagues that are not cached yet and that a waiting request reads too
Arrive ==
    \E q \in Requests :
        /\ call.arrived < MaxRequests
        /\ call' = [arrived |-> call.arrived + 1,
                    pending |-> call.pending (+) SetToBag({q}),
                    concurrent |-> call.concurrent
                        \cup {l \in LeaguesOf(q) :
                                /\ Uncached(store, l)
                                /\ \E w \in BagToSet(call.pending) :
                                      l \in LeaguesOf(w)}]
        /\ UNCHANGED <<store, ret>>

\* the handler of q ran to its end
Answer(q, served, status) ==
    /\ store' = served.store
    /\ ret' = [op |-> q.op, league |-> q.league, res |-> served.res,
               status |-> status]
    /\ call' = [call EXCEPT !.pending = @ (-) SetToBag({q})]

\* the endpoints that answer 500 to every exception
Status500(res) == IF Raised(res) THEN 500 ELSE 200

\* the teams endpoint answers 404 to FileNotFoundError
Status404(res) ==
    IF ~Raised(res) THEN 200
    ELSE IF res.kind = "FileNotFoundError" THEN 404 ELSE 500

AnswerPrediction(q, served) == Answer(q, served, HttpStatus(served.res))

AnswerAnalytics(q, served) == Answer(q, served, Status500(served.res))

AnswerTeams(q, served) == Answer(q, served, Status404(served.res))

\* POST /api/predict/head-to-head
HandleHeadToHead ==
    \E q \in BagToSet(call.pending) :
        /\ q.op = "head_to_head"
        /\ AnswerPrediction(q, serve_head_to_head(store, q.league, ProcessHome,
                                                  ProcessAway, ProcessProba))

\* POST /api/predict/cross-league
HandleCrossLeague ==
    \E q \in BagToSet(call.pending) :
        /\ q.op = "cross_league"
        /\ AnswerPrediction(q, serve_cross_league(store,
                [team_a |-> ProcessHome, league_a |-> q.league,
                 team_b |-> ProcessAway, league_b |-> q.league_b,
                 proba_a |-> ProcessProba, proba_b |-> ProcessProba]))

\* GET /api/upcoming_matches/{league}
HandleUpcomingMatches ==
    \E q \in BagToSet(call.pending) :
        /\ q.op = "upcoming_matches"
        /\ \E order \in SortedOrders(window_rows(cached_data(store, q.league).res,
                                                 ProcessToday)) :
              AnswerAnalytics(q, serve_upcoming_matches(store, q.league,
                                       ProcessToday, order, ProcessModel))

\* GET /api/teams/{league}
HandleTeams ==
    \E q \in BagToSet(call.pending) :
        /\ q.op = "teams"
        /\ AnswerTeams(q, serve_league_teams(store, q.league))

\* GET /api/analytics/model_metrics/{league}
HandleModelMetrics ==
    \E q \in BagToSet(call.pending) :
        /\ q.op = "model_metrics"
        /\ AnswerAnalytics(q, serve_model_metrics(store, q.league))

\* GET /api/analytics/overview/{league}
HandleOverview ==
    \E q \in BagToSet(call.pending) :
        /\ q.op = "overview"
        /\ AnswerAnalytics(q, serve_stats_overview(store, q.league))

\* GET /api/analytics/season_trends/{league}
HandleSeasonTrends ==
    \E q \in BagToSet(call.pending) :
        /\ q.op = "season_trends"
        /\ AnswerAnalytics(q, serve_season_trends(store, q.league))

\* GET /api/analytics/result_distribution/{league}
HandleResultDistribution ==
    \E q \in BagToSet(call.pending) :
        /\ q.op = "result_distribution"
        /\ AnswerAnalytics(q, serve_result_distribution(store, q.league))

\* GET /api/analytics/home_away_performance/{league}
HandleHomeAwayPerformance ==
    \E q \in BagToSet(call.pending) :
        /\ q.op = "home_away_performance"
        /\ AnswerAnalytics(q, serve_home_away_performance(store, q.league))

\* GET /api/analytics/goals_distribution/{league}
HandleGoalsDistribution ==
    \E q \in BagToSet(call.pending) :
        /\ q.op = "goals_distribution"
        /\ AnswerAnalytics(q, serve_goals_distribution(store, q.league))

NextProcess ==
    \/ Arrive
    \/ HandleHeadToHead
    \/ HandleCrossLeague
    \/ HandleUpcomingMatches
    \/ HandleTeams
    \/ HandleModelMetrics
    \/ HandleOverview
    \/ HandleSeasonTrends
    \/ HandleResultDistribution
    \/ HandleHomeAwayPerformance
    \/ HandleGoalsDistribution

SpecProcess == InitProcess /\ [][NextProcess]_vars

\* C12: whatever the operations served so far, every league table in the
\* cache is the table as load_league_data returned it: the same rows, the
\* same columns, the same values.
C12_CachedHistoryUnchanged ==
    ret.op \in Operations \cup {"cross_league"} =>
        \A i \in 1..Len(store.data_cache) :
            store.data_cache[i].value
                = load_league_data(store.disk, store.data_cache[i].key).value

\* C13: for a league that requests waited for together before it was cached,
\* the table and the model are each loaded exactly once: one load when the
\* league is in the cache, none otherwise, never a second one.
C13_ConcurrentFirstAccessLoadsOnce ==
    \A l \in call.concurrent :
        /\ store.loads.data[l] = (IF lru_hit(store.data_cache, l) THEN 1 ELSE 0)
        /\ store.loads.model[l] = (IF lru_hit(store.model_cache, l) THEN 1 ELSE 0)

\* two requests waited together for a league not yet cached and both were
\* handled
C13_Witness ==
    /\ call.arrived = 2
    /\ call.pending = EmptyBag
    /\ \E l \in call.concurrent :
          store.loads.data[l] = 1 /\ store.loads.model[l] = 1

(***************************************************************************)
(* Specification of a process lifetime: the requests of a script arrive    *)
(* one after the other, each after the one before was answered.            *)
(***************************************************************************)
\* the nine leagues of the repository and two more league directories
LifetimeLeagues ==
    <<"premier_league", "la_liga", "bundesliga", "serie_a", "ligue_1", "mls",
      "ucl", "uel", "world_cup", "eredivisie", "primeira_liga">>

LifetimeDisk ==
    [l \in {LifetimeLeagues[i] : i \in 1..Len(LifetimeLeagues)} |->
        Artifacts(TRUE, ModelData(SortedClasses, Num(Frac(1, 2))), TRUE,
                  IF l = LeagueB THEN ProcessTableB ELSE ProcessTableA)]

\* every league in turn, then the first league again
ScanLeagues == LifetimeLeagues \o <<LifetimeLeagues[1]>>

Scan(op) ==
    [i \in 1..Len(ScanLeagues) |->
        [op |-> op, league |-> ScanLeagues[i], league_b |-> ScanLeagues[i]]]

\* every short sequence of requests for the first two leagues, and two scans
Scripts ==
    SeqsUpTo(Requests, MaxRequests) \cup {Scan("teams"), Scan("model_metrics")}

InitLifetime ==
    /\ store = Process(LifetimeDisk)
    /\ call \in {[arrived |-> 0, pending |-> EmptyBag, concurrent |-> {},
                  script |-> script] : script \in Scripts}
    /\ ret = NoResponse

\* the next request of the script arrives once nothing is waiting
ArriveInTurn ==
    /\ call.pending = EmptyBag
    /\ call.arrived < Len(call.script)
    /\ call' = [call EXCEPT !.arrived = @ + 1,
                            !.pending = SetToBag({call.script[call.arrived + 1]})]
    /\ UNCHANGED <<store, ret>>

NextLifetime ==
    \/ ArriveInTurn
    \/ HandleHeadToHead
    \/ HandleCrossLeague
    \/ HandleUpcomingMatches
    \/ HandleTeams
    \/ HandleModelMetrics
    \/ HandleOverview
    \/ HandleSeasonTrends
    \/ HandleResultDistribution
    \/ HandleHomeAwayPerformance
    \/ HandleGoalsDistribution

SpecLifetime == InitLifetime /\ [][NextLifetime]_vars

\* the leagues requested so far
Requested ==
    UNION {LeaguesOf(call.script[i]) : i \in 1..call.arrived}

\* C14: whatever the requests so far, no league's table and no league's
\* model was loaded more than once.
C14_LoadedAtMostOnce ==
    \A l \in DOMAIN store.disk :
        store.loads.data[l] <= 1 /\ store.loads.model[l] <= 1

\* C14 as amended: while the requests so far name at most maxsize leagues, no
\* league's table and no league's model was loaded more than once.
C14_LoadedAtMostOnceWithinCapacity ==
    Cardinality(Requested) <= maxsize =>
        \A l \in DOMAIN store.disk :
            store.loads.data[l] <= 1 /\ store.loads.model[l] <= 1

\* a league requested twice, both requests answered, its table loaded once
C14_Witness ==
    /\ call.arrived = 2
    /\ call.pending = EmptyBag
    /\ call.script[1].op = "teams"
    /\ call.script[2].op = "overview"
    /\ call.script[1].league = call.script[2].league
    /\ store.loads.data[call.script[1].league] = 1
    /\ ret.status = 200

(***************************************************************************)
(* The Team Feature Aggregator on its own: get_team_stats applied to a     *)
(* history with two feature columns, cells of which may be undefined, and  *)
(* a model that declares one or both columns in either order.              *)
(***************************************************************************)
MaxStatsRows == 2

\* a played match with the two feature cells of the row
StatsRow(home, away, feat, feat2) ==
    ("feat2" :> feat2) @@ Row(home, away, 1, 0, 2024, Played, feat)

\* "A" v "b", "b" v "a", "c" v "b"
StatsPairs == {<<<<65>>, <<98>>>>, <<<<98>>, <<97>>>>, <<<<99>>, <<98>>>>}

StatsRows ==
    {StatsRow(p[1], p[2], f, g) :
        p \in StatsPairs, f \in {R(1), R(3), NaN}, g \in {R(2), NaN}}

\* the processed table as read from disk, and as get_upcoming_matches passes
\* it on with the lower-cased team columns
StatsTables ==
    LET plain == {DataFrame(AllColumns \cup {"feat2"}, rows) :
                    rows \in SeqsUpTo(StatsRows, MaxStatsRows) \ {<<>>}}
    IN  plain \cup {with_lower_columns(df) : df \in plain}

\* the names asked for: "a", "A" and the absent "d"
StatsTeams == {<<97>>, <<65>>, <<100>>}

\* the feature columns a model trained on the table may declare
StatsFeatureCols == {<<"feat">>, <<"feat", "feat2">>, <<"feat2", "feat">>}

StatsModel(feature_cols) ==
    [ModelData(<<"win", "draw", "loss">>, Num(Frac(1, 2)))
        EXCEPT !.feature_cols = feature_cols]

InitStats ==
    /\ store \in StatsTables
    /\ call \in {[team_name |-> t, model_data |-> StatsModel(fc)] :
                    t \in StatsTeams, fc \in StatsFeatureCols}
    /\ ret = Pending

GetTeamStats ==
    /\ ret = Pending
    /\ ret' = get_team_stats(store, call.team_name, call.model_data)
    /\ UNCHANGED <<store, call>>

NextStats == GetTeamStats

SpecStats == InitStats /\ [][NextStats]_vars

(***************************************************************************)
(* Properties of the aggregator, stated on the table and the request and   *)
(* not on the operators of get_team_stats.                                 *)
(***************************************************************************)
\* case-insensitive equality of two names
StatsSameTeam(name, asked) ==
    /\ Len(name) = Len(asked)
    /\ \A i \in 1..Len(name) : lower_char(name[i]) = lower_char(asked[i])

\* the cells of column c in the rows where the asked team is on the given side
PartitionCells(side, c) ==
    LET idx == SelectSeq([i \in 1..Len(store.rows) |-> i],
                         LAMBDA i : StatsSameTeam(store.rows[i][side], call.team_name))
    IN  [k \in 1..Len(idx) |-> store.rows[idx[k]][c]]

HasMatch ==
    \E i \in 1..Len(store.rows) :
        \/ StatsSameTeam(store.rows[i].home_team, call.team_name)
        \/ StatsSameTeam(store.rows[i].away_team, call.team_name)

\* the mean over the defined cells of the partition; 0 for a partition
\* without rows and, there being nothing to average, for one without a
\* defined cell
PartitionMean(side, c) ==
    LET cells == SelectSeq(PartitionCells(side, c), LAMBDA x : ~IsNaN(x))
    IN  IF cells = <<>> THEN R(0) ELSE RDiv(SumSeq(cells), R(Len(cells)))

\* the partition has rows and none of them has a defined cell in column c
UndefinedIn(side, c) ==
    LET cells == PartitionCells(side, c)
    IN  cells # <<>> /\ \A k \in 1..Len(cells) : IsNaN(cells[k])

WeightedMeans(c) ==
    RAdd(RMul(Frac(6, 10), PartitionMean("home_team", c)),
         RMul(Frac(4, 10), PartitionMean("away_team", c)))

\* C18: for a team with at least one match, get_team_stats returns exactly
\* one value per feature column of the model, the value at each position is
\* the one of the column declared at that position, and no value is NaN.
C18_OneValuePerFeature ==
    (ret # Pending /\ HasMatch) =>
        /\ ret.kind = "ok"
        /\ Len(ret.value) = Len(call.model_data.feature_cols)
        /\ \A i \in 1..Len(call.model_data.feature_cols) :
            /\ ~IsNaN(ret.value[i])
            /\ ret.value[i] =
                 get_team_stats(store, call.team_name,
                     StatsModel(<<call.model_data.feature_cols[i]>>)).value[1]

\* a vector of two columns declared as feat2, feat, whose values differ and
\* one of which was undefined before fillna
C18_Witness ==
    /\ ret.kind = "ok"
    /\ call.model_data.feature_cols = <<"feat2", "feat">>
    /\ ret.value[1] # ret.value[2]
    /\ \E side \in {"home_team", "away_team"} : UndefinedIn(side, "feat2")

\* C19: get_team_stats raises ValueError (team not found) exactly when no
\* row has the team as home or away team under case-insensitive equality,
\* and returns a vector whenever there is such a row.
C19_NotFoundIffNoMatch ==
    ret # Pending =>
        /\ ret.kind = "ValueError" <=> ~HasMatch
        /\ HasMatch => ret.kind = "ok"

\* the team is absent from a table that has rows, and the call raised
C19_Witness ==
    /\ ret.kind = "ValueError"
    /\ ~HasMatch
    /\ Len(store.rows) = MaxStatsRows

\* C20 as stated: every returned value is 0.6 * home mean + 0.4 * away mean,
\* the mean of a partition without rows being 0 (and a partition without a
\* defined cell contributing 0 as well, which is the reading most favourable
\* to the statement).
C20_WeightedMeans ==
    ret.kind = "ok" =>
        \A i \in 1..Len(call.model_data.feature_cols) :
            ret.value[i] = WeightedMeans(call.model_data.feature_cols[i])

\* C20: every returned value is 0.6 * home mean + 0.4 * away mean over the
\* defined cells, the mean of a partition without rows being 0, unless a
\* partition with rows has no defined cell in the column: the value is then 0.
C20_WeightedDefinedMeans ==
    ret.kind = "ok" =>
        \A i \in 1..Len(call.model_data.feature_cols) :
            LET c == call.model_data.feature_cols[i]
            IN  ret.value[i] =
                    IF UndefinedIn("home_team", c) \/ UndefinedIn("away_team", c)
                    THEN R(0)
                    ELSE WeightedMeans(c)

\* a team with away matches only gets 0.4 * away mean, and in the same vector
\* a column without a defined cell gets 0
C20_Witness ==
    /\ ret.kind = "ok"
    /\ call.model_data.feature_cols = <<"feat", "feat2">>
    /\ PartitionCells("home_team", "feat") = <<>>
    /\ ret.value[1] = RMul(Frac(4, 10), PartitionMean("away_team", "feat"))
    /\ ret.value[1] # R(0)
    /\ UndefinedIn("away_team", "feat2")
    /\ ret.value[2] = R(0)

(***************************************************************************)
(* Properties of the Scoreline Estimator stated on the history, the two    *)
(* sides and the probabilities of the call.                                *)
(***************************************************************************)
\* the rows whose season label is one of the two greatest labels present
\* (all rows when the history holds fewer than two labels)
RecentWindow ==
    LET labels == {call.df.rows[i].season : i \in 1..Len(call.df.rows)}
    IN  SelectSeq(call.df.rows,
                  LAMBDA r : Cardinality({s \in labels : s > r.season}) < 2)

\* the goal cells of a team in the given rows: goals for when for is TRUE,
\* goals against otherwise; home rows first, then away rows
GoalCells(rows, team, for) ==
    LET at_home == SelectSeq(rows, LAMBDA r : StatsSameTeam(r.home_team, team))
        away == SelectSeq(rows, LAMBDA r : StatsSameTeam(r.away_team, team))
    IN  [k \in 1..Len(at_home) |->
            IF for THEN at_home[k].home_goals ELSE at_home[k].away_goals]
        \o [k \in 1..Len(away) |->
            IF for THEN away[k].away_goals ELSE away[k].home_goals]

\* the recorded goals among the cells
GoalSamples(rows, team, for) ==
    SelectSeq(GoalCells(rows, team, for), LAMBDA x : ~IsNaN(x))

\* league baselines: the mean goals of the completed matches
LeagueBaseline(column) ==
    LET done == SelectSeq(call.df.rows, LAMBDA r : r.status # Scheduled)
    IN  Mean([k \in 1..Len(done) |-> done[k][column]])

\* the mean of the recorded goals, the league baseline when there are none
AverageOrBaseline(samples, baseline) ==
    IF samples = <<>> THEN baseline ELSE Mean(samples)

\* a side of the call without a recorded goal in the recent window
NoGoalSamples(team) == GoalSamples(RecentWindow, team, TRUE) = <<>>

SomeCompleted == \E i \in 1..Len(call.df.rows) : call.df.rows[i].status # Scheduled

\* C22: when a side has no goal samples in the recent window (no recent rows,
\* or only rows without recorded goals), its scoring and conceding averages
\* are the league baselines, so that the scoreline is the one computed from
\* the baselines for that side and from the recorded goals for the other.
C22_BaselineWithoutSamples ==
    (Estimated /\ WellFormed /\ SomeCompleted
        /\ (NoGoalSamples(call.home_team) \/ NoGoalSamples(call.away_team))) =>
        ret.res =
            Ok(AdjustScoreline(
                AverageOrBaseline(GoalSamples(RecentWindow, call.home_team, TRUE),
                                  LeagueBaseline("home_goals")),
                AverageOrBaseline(GoalSamples(RecentWindow, call.home_team, FALSE),
                                  LeagueBaseline("away_goals")),
                AverageOrBaseline(GoalSamples(RecentWindow, call.away_team, TRUE),
                                  LeagueBaseline("away_goals")),
                AverageOrBaseline(GoalSamples(RecentWindow, call.away_team, FALSE),
                                  LeagueBaseline("home_goals")),
                HomeWin, call.outcome_probs["draw"], AwayWin))

\* the base expectation of a side that has goal samples, against another
\* that has: the mean of what the side scored and what the other conceded
BaseGoals(team, other) ==
    RDiv(RAdd(Mean(GoalSamples(RecentWindow, team, TRUE)),
              Mean(GoalSamples(RecentWindow, other, FALSE))),
         R(2))

\* both sides have recent rows and every recent row of theirs has its goals
BothSampled ==
    \A team \in {call.home_team, call.away_team} :
        /\ GoalCells(RecentWindow, team, TRUE) # <<>>
        /\ GoalCells(RecentWindow, team, TRUE) = GoalSamples(RecentWindow, team, TRUE)

UniformBoost == RAdd(R(1), RMul(Frac(2, 10), call.outcome_probs["draw"]))

\* C23: with |home_win - away_win| <= 0.15 both base expectations are
\* multiplied by the same factor 1 + 0.2 * draw_prob.
C23_TieRangeUniformBoost ==
    (Estimated /\ WellFormed /\ BothSampled
        /\ RLe(RAbs(RSub(HomeWin, AwayWin)), Frac(15, 100))) =>
        /\ ret.res.kind = "ok"
        /\ HomeGoals = Round1(RMul(BaseGoals(call.home_team, call.away_team),
                                   UniformBoost))
        /\ AwayGoals = Round1(RMul(BaseGoals(call.away_team, call.home_team),
                                   UniformBoost))

(***************************************************************************)
(* The estimator on histories that span several seasons: at most one row   *)
(* per season label, played with a score or still scheduled.               *)
(***************************************************************************)
SeasonLabels == {2022, 2023, 2024}

\* the fixtures of a season: "A" v "b", "b" v "A", "ba" v "b"
SeasonFixtures ==
    {<<HomeSide, AwaySide>>, <<AwaySide, HomeSide>>, <<ThirdSide, AwaySide>>}

SeasonRows(season) ==
    {PlayedRow(q[1], q[2], g, season) :
        q \in SeasonFixtures, g \in {<<1, 0>>, <<0, 2>>}}
    \cup {ScheduledRow(HomeSide, AwaySide, season)}

\* a row for each label of a set of labels, oldest season first
SeasonHistories ==
    UNION {{Table([k \in 1..Len(Ascend(L)) |-> f[Ascend(L)[k]]]) :
                f \in {g \in [L -> UNION {SeasonRows(y) : y \in L}] :
                          \A y \in L : g[y] \in SeasonRows(y)}} :
           L \in SUBSET SeasonLabels}

InitRecency ==
    /\ store = NoStore
    /\ call \in {ScoreCall(df, p) : df \in SeasonHistories, p \in ScoreProbs}
    /\ ret = NoRet

NextRecency == PredictScoreline

SpecRecency == InitRecency /\ [][NextRecency]_vars

\* a side's average as the estimator takes it from the given rows: the mean
\* of its goal cells, the league baseline when it has no row among them
AverageOver(rows, team, for, baseline) ==
    IF GoalCells(rows, team, for) = <<>> THEN LeagueBaseline(baseline)
    ELSE Mean(GoalCells(rows, team, for))

\* the scoreline obtained when the team averages are taken over the given rows
ScorelineOver(rows) ==
    AdjustScoreline(AverageOver(rows, call.home_team, TRUE, "home_goals"),
                    AverageOver(rows, call.home_team, FALSE, "away_goals"),
                    AverageOver(rows, call.away_team, TRUE, "away_goals"),
                    AverageOver(rows, call.away_team, FALSE, "home_goals"),
                    HomeWin, call.outcome_probs["draw"], AwayWin)

\* C25: the team averages are taken over exactly the rows of the two
\* greatest season labels of the history (over all rows when it holds fewer
\* than two labels); the rows of older seasons enter the league baselines only.
C25_TwoMostRecentSeasons ==
    (Estimated /\ WellFormed /\ SomeCompleted) =>
        ret.res = Ok(ScorelineOver(RecentWindow))

\* a history of three seasons whose oldest row is a played match of the home
\* side, and a scoreline that differs from the one all rows would give
C25_Witness ==
    /\ Estimated
    /\ WellFormed
    /\ Len(call.df.rows) = Cardinality(SeasonLabels)
    /\ call.df.rows[1].status = Played
    /\ call.df.rows[1].home_team = call.home_team
    /\ Len(RecentWindow) = 2
    /\ ret.res = Ok(ScorelineOver(RecentWindow))
    /\ ret.res.value # ScorelineOver(call.df.rows)

\* the call with the two sides and their probabilities exchanged
SwappedProbs ==
    [home_win |-> AwayWin, draw |-> call.outcome_probs["draw"], away_win |-> HomeWin]

\* each side has a recorded goal in the recent window
BothHaveSamples ==
    /\ GoalSamples(RecentWindow, call.home_team, TRUE) # <<>>
    /\ GoalSamples(RecentWindow, call.away_team, TRUE) # <<>>

\* C29: when both sides have recent goal samples, the scoreline of the call
\* with the sides and their win probabilities exchanged is the scoreline of
\* the call with the two predicted-goal values exchanged.
C29_SidesSymmetric ==
    (Estimated /\ WellFormed /\ BothHaveSamples) =>
        LET swapped == predict_scoreline(call.df, call.away_team, call.home_team,
                                         SwappedProbs)
        IN  /\ ret.res.kind = "ok"
            /\ swapped.kind = "ok"
            /\ swapped.value.predicted_home_goals = AwayGoals
            /\ swapped.value.predicted_away_goals = HomeGoals

\* the home side is the clear favourite, the two predicted values differ and
\* the league baselines of home and away goals differ
C29_Witness ==
    /\ Estimated
    /\ WellFormed
    /\ BothHaveSamples
    /\ RGt(RAbs(RSub(HomeWin, AwayWin)), ClearFavorite)
    /\ RGt(HomeWin, AwayWin)
    /\ ret.res.kind = "ok"
    /\ HomeGoals # AwayGoals
    /\ LeagueBaseline("home_goals") # LeagueBaseline("away_goals")
    /\ predict_scoreline(call.df, call.away_team, call.home_team, SwappedProbs).value
         = [predicted_home_goals |-> AwayGoals, predicted_away_goals |-> HomeGoals]

\* C27: when a partition of the team that has rows has no defined cell in a
\* feature column, get_team_stats returns 0 for that column, whatever the
\* mean of the column over the other partition.
C27_UndefinedPartitionGivesZero ==
    ret.kind = "ok" =>
        \A i \in 1..Len(call.model_data.feature_cols) :
            (\E side \in {"home_team", "away_team"} :
                UndefinedIn(side, call.model_data.feature_cols[i]))
                => ret.value[i] = R(0)

\* the home partition has rows and no defined cell in the first column, the
\* away partition has a mean other than 0 there, and the value returned is 0
C27_Witness ==
    /\ ret.kind = "ok"
    /\ UndefinedIn("home_team", call.model_data.feature_cols[1])
    /\ ~UndefinedIn("away_team", call.model_data.feature_cols[1])
    /\ PartitionMean("away_team", call.model_data.feature_cols[1]) # R(0)
    /\ ret.value[1] = R(0)

(***************************************************************************)
(* The classifier input of a cross-league call.                            *)
(***************************************************************************)
\* the aggregated features of a side of the cross-league call
SideStats(team, league) ==
    get_team_stats(load_league_data(store, league).value,
                   find_team(team, load_league_data(store, league).value).value,
                   load_league_model(store, league).value).value

SwapDiff ==
    cross_league_feature_diff(store, call.team_a, call.league_a,
                              call.team_b, call.league_b)

\* 0 for equal values, +2 when a is the greater, -2 when it is the smaller
SignTwice(a, b) == IF a = b THEN R(0) ELSE IF RGt(a, b) THEN R(2) ELSE R(0 - 2)

\* the difference vector d has a component per feature of the two
\* aggregated vectors, each the doubled sign of their difference
IsSignTwice(d, stats_a, stats_b) ==
    /\ Len(d) = Len(stats_a)
    /\ \A i \in 1..Len(d) : d[i] = SignTwice(stats_a[i], stats_b[i])

\* C28: every component of the standardized difference vector handed to the
\* two models is 0 when the two teams have equal values for the feature, +2
\* when team A's value is the greater and -2 when it is the smaller.
C28_DifferenceIsSignTwice ==
    (call.op = "swap" /\ SwapDiff # NoDiff) =>
        IsSignTwice(SwapDiff, SideStats(call.team_a, call.league_a),
                    SideStats(call.team_b, call.league_b))

\* the call returned, team A's feature is the smaller one, by less than 1,
\* and both models were asked about <<-2>>
C28_Witness ==
    /\ call.op = "swap"
    /\ ret.forward.kind = "ok"
    /\ call.league_a # call.league_b
    /\ SwapDiff = <<R(0 - 2)>>
    /\ RLt(RSub(SideStats(call.team_b, call.league_b)[1],
                SideStats(call.team_a, call.league_a)[1]), R(1))

(***************************************************************************)
(* The Batch Predictor and the rows of the current season.                 *)
(***************************************************************************)
\* what a row of the current season may hold instead: a result, other
\* feature values, or nothing
SeasonResults ==
    {[status |-> Played, home_goals |-> R(3), away_goals |-> R(1), feat |-> R(7)],
     [status |-> Played, home_goals |-> R(0), away_goals |-> R(0), feat |-> NaN],
     [status |-> Scheduled, home_goals |-> NaN, away_goals |-> NaN, feat |-> R(7)]}

\* a row with the status, the goals and the feature value of result, when it
\* belongs to the current season
WithResult(r, result) ==
    IF r.season # current_season THEN r
    ELSE [r EXCEPT !.status = result.status, !.home_goals = result.home_goals,
                   !.away_goals = result.away_goals, !.feat = result.feat]

\* the stored history of the league with every row of the current season
\* holding result
StoreWithResult(result) ==
    [store EXCEPT ![call.league].df.rows =
        [i \in 1..Len(store[call.league].df.rows) |->
            WithResult(store[call.league].df.rows[i], result)]]

\* C24: a history that differs only in the goals, the feature values and the
\* status of its current-season rows gives the same batch output: the same
\* fixtures with the same probabilities and scorelines.
C24_CurrentSeasonResultsIgnored ==
    BatchReturned =>
        \A result \in SeasonResults :
            get_upcoming_matches(StoreWithResult(result), call.league, call.today,
                                 ret.order, call.model) = ret.res

\* predictions were returned for two fixtures, one of them already played,
\* and they are the same when both have been played 3-1
C24_Witness ==
    /\ BatchReturned
    /\ ret.res.kind = "ok"
    /\ Len(ret.res.value) = 2
    /\ \E i \in 1..Len(store[call.league].df.rows) :
          /\ store[call.league].df.rows[i].season = current_season
          /\ store[call.league].df.rows[i].status = Played
    /\ StoreWithResult([status |-> Played, home_goals |-> R(3),
                        away_goals |-> R(1), feat |-> R(7)]) # store
    /\ get_upcoming_matches(
           StoreWithResult([status |-> Played, home_goals |-> R(3),
                            away_goals |-> R(1), feat |-> R(7)]),
           call.league, call.today, ret.order, call.model) = ret.res

\* C30: get_upcoming_matches never raises; without a data file, without a
\* model artifact, or with a step outside the loop over the fixtures failing
\* (a table without date column) it returns the empty list, the value it
\* returns for a league with no fixture in the window.
C30_NeverRaisesEmptyList ==
    BatchReturned =>
        /\ ret.res.kind = "ok"
        /\ (\/ ~store[call.league].has_data
            \/ ~store[call.league].has_model
            \/ "date" \notin store[call.league].df.columns)
               => ret.res.value = <<>>

\* the league has its table, with a fixture in the window, and no model
\* artifact: the answer is the empty list
C30_Witness ==
    /\ BatchReturned
    /\ store[call.league].has_data
    /\ ~store[call.league].has_model
    /\ window_rows(BatchData, call.today) # <<>>
    /\ ret.res = Ok(<<>>)

(***************************************************************************)
(* The Batch Predictor on tables whose current-season rows are fixtures    *)
(* still to play or matches already played, one or two of them.            *)
(***************************************************************************)
\* "A" v "b" and "b" v "A" on day 8 or 12, scheduled or played 3-1
CurrentSeasonRows ==
    {Dated(WithResult(ScheduledRow(q[1], q[2], current_season), result), d) :
        q \in {<<<<65>>, <<98>>>>, <<<<98>>, <<65>>>>},
        d \in {Text(8), Text(12)},
        result \in {[status |-> Scheduled, home_goals |-> NaN,
                     away_goals |-> NaN, feat |-> R(1)],
                    [status |-> Played, home_goals |-> R(3),
                     away_goals |-> R(1), feat |-> R(7)]}}

CurrentSeasonStores ==
    {StoreOf(ModelData(SortedClasses, Num(Frac(1, 2))),
             BatchTable(BatchHistory \o fixtures),
             ModelData(SortedClasses, Num(Frac(1, 2))), TableB) :
        fixtures \in {<<r>> : r \in CurrentSeasonRows}
                       \cup {<<r, s>> : r \in CurrentSeasonRows, s \in CurrentSeasonRows}}

InitCurrentSeason ==
    /\ store \in CurrentSeasonStores
    /\ call \in {[op |-> "upcoming", league |-> LeagueA, today |-> today, model |-> model] :
                    today \in Todays, model \in BatchClassifiers}
    /\ ret = NoBatchRet

NextCurrentSeason == UpcomingMatches

SpecCurrentSeason == InitCurrentSeason /\ [][NextCurrentSeason]_vars

(***************************************************************************)
(* The cross-league call with one fitted classifier per league: what the   *)
(* classifiers are asked is what matters here, not what they answer.       *)
(***************************************************************************)
InitStandardized ==
    /\ store \in SwapStores
    /\ call \in {[op |-> "swap", team_a |-> ta, league_a |-> la, team_b |-> tb,
                  league_b |-> lb,
                  models |-> [l \in Leagues |->
                                [d \in FeatureDiffs |-> <<Pct(50), Pct(30), Pct(20)>>]]] :
                    ta \in RequestNames, tb \in RequestNames,
                    la \in Leagues, lb \in Leagues}
    /\ ret = NoSwapRet

NextStandardized == CrossLeagueForward \/ CrossLeagueBackward

SpecStandardized == InitStandardized /\ [][NextStandardized]_vars

====
